---- MODULE Spec2Model ----
(***************************************************************************)
(* Adaptive scheduler of the RAMSC study service: daily pack generation    *)
(* (api/src/services/scheduler.js), the SM-2 update and the item queries   *)
(* (services/sm2Algorithm.js) and the routes that call them.               *)
(*                                                                         *)
(* Time is counted in whole days.  An ease factor is held in hundredths    *)
(* (2.5 is 250), an accuracy in hundredths of a percent (70.0 is 7000).    *)
(***************************************************************************)
EXTENDS Integers, Sequences, FiniteSets, TLC

\* ------------------------------------------------------------------------
\* Bounds of the model
\* ------------------------------------------------------------------------
NumUsers == 2
NumReqs == 1
MaxDay == 1
MaxDueF == 15
MaxDueM == 10
MaxReviews == 3
MaxAttempts == 2
MaxPacks == 1
MaxGenF == 1
MaxGenM == 1
MaxAnswers == 2

\* ------------------------------------------------------------------------
\* Policy constants of the code
\* ------------------------------------------------------------------------
DueLimit == 20
DueFlashcardCap == 12
DueMCQCap == 8
WeakTopicLimit == 5
WeakMinAttempts == 3
WeakAccuracy == 7000
WeakFlashcardCap == 5
WeakMCQCap == 3
NewFlashcardCap == 3
NewMCQCap == 2
PackCap == 25
RollingWindowDays == 7

Users == 1..NumUsers
Handlers == {1, 2}
Reqs == 1..NumReqs
Cron == 0
Procs == Reqs \cup {Cron}
Days == 0..MaxDay
Undefined == 0

VARIABLES
  now,                \* NOW() / CURRENT_DATE of the database, in days
  study_sets,         \* table study_sets: id -> row
  flashcards,         \* table flashcards: id -> row
  mcqs,               \* table mcqs: id -> row
  topic_performance,  \* table topic_performance: <<user_id, topic>> -> row
  study_sessions,     \* table study_sessions, in insertion order
  notifications,      \* table notifications, in insertion order
  gen,                \* the generateDailyPack invocation of each caller
  batch,              \* the runDailyScheduler invocation of the cron job
  httpRes,            \* the response sent to each scheduler request
  forced,             \* (user, date) pairs for which force=true was requested
  user_responses,     \* table user_responses, in insertion order
  resp,               \* the POST /response handler of each submission
  respRes,            \* the response sent to each submission
  topicJob,           \* the updateTopicPerformance / recalculateRollingAccuracy invocation
  packJob             \* the generateStudyPack invocation

vars == <<now, study_sets, flashcards, mcqs, topic_performance,
          study_sessions, notifications, gen, batch, httpRes, forced,
          user_responses, resp, respRes, topicJob, packJob>>

dbItems == <<study_sets, flashcards, mcqs, topic_performance>>
respVars == <<user_responses, resp, respRes>>
schedVars == <<study_sessions, notifications, gen, batch, httpRes, forced>>
jobVars == <<topicJob, packJob>>

\* ------------------------------------------------------------------------
\* Sequences
\* ------------------------------------------------------------------------
Min(a, b) == IF a < b THEN a ELSE b

\* Array.prototype.slice(0, n)
Slice(s, n) == SubSeq(s, 1, Min(n, Len(s)))

\* Array.prototype.filter on item_type
FilterType(rows, t) == SelectSeq(rows, LAMBDA r : r.item_type = t)

Range(s) == {s[i] : i \in 1..Len(s)}

\* The results a query "ORDER BY ... LIMIT k" may return over the row set S:
\* every way to list the first k rows in which no row precedes a row that
\* sorts strictly before it.  Rows that compare equal (a tie, or RANDOM())
\* may come in any order.
RECURSIVE OrderByLimit(_, _, _)
OrderByLimit(S, Before(_, _), k) ==
  IF k = 0 \/ S = {} THEN {<<>>}
  ELSE UNION { { <<m>> \o t : t \in OrderByLimit(S \ {m}, Before, k - 1) } :
               m \in {x \in S : \A y \in S : ~Before(y, x)} }

\* ------------------------------------------------------------------------
\* Rows and queries (services/sm2Algorithm.js, services/scheduler.js)
\* ------------------------------------------------------------------------

\* SELECT f.*, 'flashcard' as item_type
SelectItem(row, t) == [item_type |-> t] @@ row

\* The rows of a table without the join on the owner of the study set
OwnedRows_anyUser(userId, t) ==
  LET tbl == IF t = "flashcard" THEN flashcards ELSE mcqs
  IN  { SelectItem(tbl[i], t) : i \in DOMAIN tbl }

\* JOIN study_sets s ON i.study_set_id = s.id WHERE s.user_id = $1
OwnedRows(userId, t) ==
  LET tbl == IF t = "flashcard" THEN flashcards ELSE mcqs
  IN  { SelectItem(tbl[i], t) :
        i \in {j \in DOMAIN tbl : study_sets[tbl[j].study_set_id].user_id = userId} }

\* ORDER BY sort_due_at ASC, sort_difficulty DESC
DueBefore(a, b) ==
  \/ a.due_at < b.due_at
  \/ a.due_at = b.due_at /\ a.difficulty > b.difficulty

\* WHERE s.user_id = $1 AND due_at <= NOW(), for one type or for both
DueRows(userId, itemType) ==
  LET F == {r \in OwnedRows(userId, "flashcard") : r.due_at <= now}
      M == {r \in OwnedRows(userId, "mcq") : r.due_at <= now}
  IN  IF itemType = "flashcard" THEN F
      ELSE IF itemType = "mcq" THEN M
      ELSE F \cup M

\* getItemsDue: the row lists the query may return
getItemsDue(userId, itemType, limit) ==
  OrderByLimit(DueRows(userId, itemType), DueBefore, limit)

\* The weak-topic order with the tie broken by fewer attempts first
WeakBefore_fewerAttemptsFirst(a, b) ==
  \/ a.accuracy_7day < b.accuracy_7day
  \/ a.accuracy_7day = b.accuracy_7day /\ a.total_attempts < b.total_attempts

\* ORDER BY tp.accuracy_7day ASC, tp.total_attempts DESC
WeakBefore(a, b) ==
  \/ a.accuracy_7day < b.accuracy_7day
  \/ a.accuracy_7day = b.accuracy_7day /\ a.total_attempts > b.total_attempts

\* WHERE tp.total_attempts >= $2 AND tp.accuracy_7day < 70.0
IsWeak(tp, minAttempts) ==
  tp.total_attempts >= minAttempts /\ tp.accuracy_7day < WeakAccuracy

\* getWeakTopics: the row lists the query may return
getWeakTopics(userId, limit, minAttempts) ==
  OrderByLimit({ topic_performance[k] :
                 k \in {x \in DOMAIN topic_performance :
                          /\ topic_performance[x].user_id = userId
                          /\ IsWeak(topic_performance[x], minAttempts)} },
               WeakBefore, limit)

\* ORDER BY difficulty DESC, RANDOM()
DifficultyDesc(a, b) == a.difficulty > b.difficulty

\* ORDER BY created_at ASC: the oldest first
CreatedDesc_oldestFirst(a, b) == a.created_at < b.created_at

\* ORDER BY created_at DESC, RANDOM()
CreatedDesc(a, b) == a.created_at > b.created_at

\* The rows of the weak topics of any user's study sets
WeakTopicRows_anyOwner(userId, weakTopicNames, t) ==
  LET tbl == IF t = "flashcard" THEN flashcards ELSE mcqs
  IN  { SelectItem(tbl[i], t) :
        i \in {j \in DOMAIN tbl :
                 study_sets[tbl[j].study_set_id].topics \cap weakTopicNames # {}} }

\* WHERE s.user_id = $1 AND s.topics && $2
WeakTopicRows(userId, weakTopicNames, t) ==
  { r \in OwnedRows(userId, t) :
      study_sets[r.study_set_id].topics \cap weakTopicNames # {} }

\* The weak-topic query of generateDailyPack: flashcards LIMIT 5, then MCQs LIMIT 3
weakTopicQuery(userId, weakTopicNames) ==
  { f \o m :
      f \in OrderByLimit(WeakTopicRows(userId, weakTopicNames, "flashcard"),
                         DifficultyDesc, WeakFlashcardCap),
      m \in OrderByLimit(WeakTopicRows(userId, weakTopicNames, "mcq"),
                         DifficultyDesc, WeakMCQCap) }

\* WHERE s.user_id = $1 AND review_count = 0
UnreviewedRows(userId, t) == {r \in OwnedRows(userId, t) : r.review_count = 0}

\* The new-items query of generateDailyPack: flashcards LIMIT 3, then MCQs LIMIT 2
newItemsQuery(userId) ==
  { f \o m :
      f \in OrderByLimit(UnreviewedRows(userId, "flashcard"), CreatedDesc, NewFlashcardCap),
      m \in OrderByLimit(UnreviewedRows(userId, "mcq"), CreatedDesc, NewMCQCap) }

\* existing.id === item.id && existing.item_type === item.item_type
SameItem(existing, item) ==
  existing.id = item.id /\ existing.item_type = item.item_type

\* A reduce that replaces the kept item by the later equal one
RECURSIVE RemoveDuplicates_keepLast(_, _)
RemoveDuplicates_keepLast(rest, acc) ==
  IF rest = <<>> THEN acc
  ELSE LET item == Head(rest)
       IN  RemoveDuplicates_keepLast(Tail(rest),
             Append(SelectSeq(acc, LAMBDA e : ~(e.id = item.id /\ e.item_type = item.item_type)),
                    item))

\* allItems.reduce(...): keep an item unless an equal one was kept before
RECURSIVE RemoveDuplicates(_, _)
RemoveDuplicates(rest, acc) ==
  IF rest = <<>> THEN acc
  ELSE LET item == Head(rest)
       IN  RemoveDuplicates(Tail(rest),
             IF \E i \in 1..Len(acc) : SameItem(acc[i], item)
             THEN acc ELSE Append(acc, item))

\* A merge that puts the weak-topic and new items before the due items
AllItems_dueLast(dueFlashcards, dueMCQs, weakTopicItems, newItems) ==
  weakTopicItems \o newItems \o dueFlashcards \o dueMCQs

\* [...dueFlashcards, ...dueMCQs, ...weakTopicItems, ...newItems]
AllItems(dueFlashcards, dueMCQs, weakTopicItems, newItems) ==
  dueFlashcards \o dueMCQs \o weakTopicItems \o newItems

CapPack_offByOne(uniqueItems) == Slice(uniqueItems, PackCap + 1)

\* uniqueItems.slice(0, 25)
CapPack(uniqueItems) == Slice(uniqueItems, PackCap)

\* finalItems of generateDailyPack
FinalItems(dueFlashcards, dueMCQs, weakTopicItems, newItems) ==
  CapPack(RemoveDuplicates(
            AllItems(dueFlashcards, dueMCQs, weakTopicItems, newItems), <<>>))

\* dueItems.filter(flashcard).slice(0, 12) and dueItems.filter(mcq).slice(0, 8)
DueFlashcardsOf(dueItems) == Slice(FilterType(dueItems, "flashcard"), DueFlashcardCap)
DueMCQsOf(dueItems) == Slice(FilterType(dueItems, "mcq"), DueMCQCap)

IsEmptyPack_never(finalItems) == FALSE

\* finalItems.length === 0
IsEmptyPack(finalItems) == Len(finalItems) = 0

\* A guard that only counts the sessions that have a notification
existingPackQuery_notifiedOnly(userId) ==
  { study_sessions[i].id :
      i \in {j \in 1..Len(study_sessions) :
               /\ study_sessions[j].user_id = userId
               /\ study_sessions[j].session_type = "daily"
               /\ study_sessions[j].started_at = now
               /\ study_sessions[j].status # "completed"
               /\ \E n \in 1..Len(notifications) :
                    notifications[n].data.sessionId = study_sessions[j].id} }

\* SELECT id FROM study_sessions WHERE user_id = $1 AND session_type = 'daily'
\*   AND DATE(started_at) = CURRENT_DATE AND status != 'completed'
existingPackQuery(userId) ==
  { study_sessions[i].id :
      i \in {j \in 1..Len(study_sessions) :
               /\ study_sessions[j].user_id = userId
               /\ study_sessions[j].session_type = "daily"
               /\ study_sessions[j].started_at = now
               /\ study_sessions[j].status # "completed"} }

\* INSERT INTO study_sessions (user_id, session_type, items_total) ... RETURNING *
NewSession(userId, itemsTotal) ==
  [id |-> Len(study_sessions) + 1, user_id |-> userId, session_type |-> "daily",
   items_total |-> itemsTotal, items_completed |-> 0, items_correct |-> 0,
   started_at |-> now, status |-> "active"]

\* ------------------------------------------------------------------------
\* generateDailyPack and runDailyScheduler (services/scheduler.js)
\* ------------------------------------------------------------------------

NoBreakdown == [dueFlashcards |-> 0, dueMCQs |-> 0, weakTopicItems |-> 0, newItems |-> 0]

\* A value returned by generateDailyPack; a field the object does not have
\* is Undefined, "" or empty
NoResult ==
  [message |-> "", sessionId |-> Undefined, totalItems |-> Undefined,
   breakdown |-> NoBreakdown, weakTopics |-> <<>>, items |-> <<>>]

\* return { message: 'Daily pack already generated today' }
AlreadyGenerated(existing) ==
  [NoResult EXCEPT !.message = "Daily pack already generated today"]

\* return { message: 'No study items available today' }
NoItemsAvailable == [NoResult EXCEPT !.message = "No study items available today"]

\* A result whose totalItems counts the buckets before duplicates are removed
PackResult_totalOfBuckets(f) ==
  [message |-> "", sessionId |-> f.sessionResult[1].id,
   totalItems |-> Len(f.dueFlashcards) + Len(f.dueMCQs)
                    + Len(f.weakTopicItems) + Len(f.newItems),
   breakdown |-> [dueFlashcards |-> Len(f.dueFlashcards), dueMCQs |-> Len(f.dueMCQs),
                  weakTopicItems |-> Len(f.weakTopicItems), newItems |-> Len(f.newItems)],
   weakTopics |-> [i \in 1..Len(f.weakTopics) |->
                     [topic |-> f.weakTopics[i].topic,
                      accuracy |-> f.weakTopics[i].accuracy_7day]],
   items |-> Slice(f.finalItems, 10)]

\* return { sessionId, totalItems, breakdown, weakTopics, items }
PackResult(f) ==
  [message |-> "", sessionId |-> f.sessionResult[1].id,
   totalItems |-> Len(f.finalItems),
   breakdown |-> [dueFlashcards |-> Len(f.dueFlashcards), dueMCQs |-> Len(f.dueMCQs),
                  weakTopicItems |-> Len(f.weakTopicItems), newItems |-> Len(f.newItems)],
   weakTopics |-> [i \in 1..Len(f.weakTopics) |->
                     [topic |-> f.weakTopics[i].topic,
                      accuracy |-> f.weakTopics[i].accuracy_7day]],
   items |-> Slice(f.finalItems, 10)]

\* The payload with the items counted before the duplicates are removed
PackNotification_countsBuckets(f) ==
  [type |-> "daily_pack_ready",
   data |-> [sessionId |-> f.sessionResult[1].id,
             totalItems |-> Len(f.dueFlashcards) + Len(f.dueMCQs)
                              + Len(f.weakTopicItems) + Len(f.newItems),
             dueItems |-> Len(f.dueFlashcards) + Len(f.dueMCQs),
             weakTopicItems |-> Len(f.weakTopicItems),
             newItems |-> Len(f.newItems),
             weakTopics |-> [i \in 1..Len(f.weakTopics) |-> f.weakTopics[i].topic]]]

\* The payload handed to sendNotification
PackNotification(f) ==
  [type |-> "daily_pack_ready",
   data |-> [sessionId |-> f.sessionResult[1].id,
             totalItems |-> Len(f.finalItems),
             dueItems |-> Len(f.dueFlashcards) + Len(f.dueMCQs),
             weakTopicItems |-> Len(f.weakTopicItems),
             newItems |-> Len(f.newItems),
             weakTopics |-> [i \in 1..Len(f.weakTopics) |-> f.weakTopics[i].topic]]]

\* The locals of one generateDailyPack invocation
IdleFrame ==
  [pc |-> "idle", userId |-> Undefined, forceGeneration |-> FALSE,
   existingPackResult |-> {}, dueFlashcards |-> <<>>, dueMCQs |-> <<>>,
   weakTopics |-> <<>>, weakTopicItems |-> <<>>, newItems |-> <<>>,
   finalItems |-> <<>>, sessionResult |-> <<>>,
   outcome |-> "none", error |-> "", result |-> NoResult]

\* An entry that runs the guard query whether forced or not
StartFrame_alwaysChecks(userId, forceGeneration) ==
  [IdleFrame EXCEPT !.pc = "check",
                    !.userId = userId, !.forceGeneration = forceGeneration]

\* Entry of generateDailyPack up to its first await: the guard query unless forced
StartFrame(userId, forceGeneration) ==
  [IdleFrame EXCEPT !.pc = IF forceGeneration THEN "due" ELSE "check",
                    !.userId = userId, !.forceGeneration = forceGeneration]

\* sendNotification: the notifications table afterwards and whether it threw.
\* It throws before the record is inserted (user query, insert) or after it
\* (the status update when no channel delivered); a channel that fails is
\* caught.  delivered tells whether some channel sent the notification.
sendNotification(userId, notification) ==
  LET row == [id |-> Len(notifications) + 1, user_id |-> userId,
              type |-> notification.type, data |-> notification.data,
              delivered |-> FALSE]
  IN  {[table |-> notifications, threw |-> TRUE],
       [table |-> Append(notifications, [row EXCEPT !.delivered = TRUE]),
        threw |-> FALSE],
       [table |-> Append(notifications, row), threw |-> FALSE],
       [table |-> Append(notifications, row), threw |-> TRUE]}

\* Without the try/catch of the loop body a throw ends the run in the outer catch
BatchAfterUser_abort(b, userId, outcome, error, result) ==
  IF outcome = "thrown"
  THEN [b EXCEPT !.pc = "done", !.error = TRUE]
  ELSE [b EXCEPT !.log = Append(@, [userId |-> userId, outcome |-> outcome,
                                    error |-> error, result |-> result]),
                 !.i = @ + 1,
                 !.pc = IF b.i + 1 > Len(b.users) THEN "done" ELSE "loop"]

\* The loop body of runDailyScheduler after generateDailyPack(user.id) settled:
\* a throw is caught and logged, and the loop goes on with the next user
BatchAfterUser(b, userId, outcome, error, result) ==
  [b EXCEPT !.log = Append(@, [userId |-> userId, outcome |-> outcome,
                               error |-> error, result |-> result]),
            !.i = @ + 1,
            !.pc = IF b.i + 1 > Len(b.users) THEN "done" ELSE "loop"]

\* res.json({message, pack}) or res.status(500) of GET /daily and POST /trigger-daily
HttpResponse(outcome, result) ==
  IF outcome = "thrown" THEN [status |-> 500, pack |-> NoResult]
  ELSE [status |-> 200, pack |-> result]

NoResponse == [status |-> Undefined, pack |-> NoResult]

\* A step of invocation p that ends at its next await
Await(p, f) ==
  /\ gen' = [gen EXCEPT ![p] = f]
  /\ UNCHANGED <<batch, httpRes>>

\* Invocation p settles with frame f: the route answers, the batch loop logs
\* and calls generateDailyPack for its next user
Settle(p, f) ==
  IF p = Cron
  THEN LET b == BatchAfterUser(batch, f.userId, f.outcome, f.error, f.result)
       IN  /\ batch' = b
           /\ gen' = [gen EXCEPT ![p] = IF b.pc = "loop"
                                        THEN StartFrame(b.users[b.i], FALSE)
                                        ELSE f]
           /\ UNCHANGED httpRes
  ELSE /\ gen' = [gen EXCEPT ![p] = f]
       /\ httpRes' = [httpRes EXCEPT ![p] = HttpResponse(f.outcome, f.result)]
       /\ UNCHANGED batch

\* The frame of a settled invocation: its locals are gone
DoneFrame(f, outcome, error, result) ==
  [IdleFrame EXCEPT !.pc = "done", !.userId = f.userId,
                    !.forceGeneration = f.forceGeneration,
                    !.outcome = outcome, !.error = error, !.result = result]

\* catch (error) { throw error }
Throw(p, f, error) == Settle(p, DoneFrame(f, "thrown", error, NoResult))

Return(p, f, result) == Settle(p, DoneFrame(f, "returned", "", result))

\* router.get('/daily'): generateDailyPack(req.userId)
GetDaily(p, userId) ==
  /\ p \in Reqs /\ gen[p].pc = "idle"
  /\ Await(p, StartFrame(userId, FALSE))
  /\ UNCHANGED <<now, dbItems, respVars, jobVars, study_sessions, notifications, forced>>

\* router.post('/trigger-daily'): generateDailyPack(req.userId, true)
TriggerDaily(p, userId) ==
  /\ p \in Reqs /\ gen[p].pc = "idle"
  /\ Await(p, StartFrame(userId, TRUE))
  /\ forced' = forced \cup {<<userId, now>>}
  /\ UNCHANGED <<now, dbItems, respVars, jobVars, study_sessions, notifications>>

\* The guard query failed
GenCheckFail(p) ==
  /\ gen[p].pc = "check"
  /\ Throw(p, gen[p], "query failed")
  /\ UNCHANGED <<now, dbItems, respVars, jobVars, study_sessions, notifications, forced>>

\* The guard: a daily session of today that is not completed ends the call
GenCheck(p) ==
  /\ gen[p].pc = "check"
  /\ LET rows == existingPackQuery(gen[p].userId)
         f == [gen[p] EXCEPT !.existingPackResult = rows]
     IN  IF Cardinality(rows) > 0
         THEN Return(p, f, AlreadyGenerated(rows))
         ELSE Await(p, [f EXCEPT !.pc = "due"])
  /\ UNCHANGED <<now, dbItems, respVars, jobVars, study_sessions, notifications, forced>>

\* A content-store query of the composition failed
GenQueryFail(p) ==
  /\ gen[p].pc \in {"due", "weakTopics", "weakItems", "new"}
  /\ Throw(p, gen[p], "query failed")
  /\ UNCHANGED <<now, dbItems, respVars, jobVars, study_sessions, notifications, forced>>

\* Step 1 with a fetch that stamps the fetched flashcards as reviewed now
GenDue_stampsFetched(p) ==
  /\ gen[p].pc = "due"
  /\ \E dueItems \in getItemsDue(gen[p].userId, "both", DueLimit) :
       /\ Await(p, [gen[p] EXCEPT !.dueFlashcards = DueFlashcardsOf(dueItems),
                                  !.dueMCQs = DueMCQsOf(dueItems),
                                  !.pc = "weakTopics"])
       /\ flashcards' = [id \in DOMAIN flashcards |->
                           IF \E i \in 1..Len(dueItems) :
                                dueItems[i].item_type = "flashcard" /\ dueItems[i].id = id
                           THEN [flashcards[id] EXCEPT !.last_reviewed = now + 1]
                           ELSE flashcards[id]]
  /\ UNCHANGED <<now, study_sets, mcqs, topic_performance, respVars, jobVars,
                 study_sessions, notifications, forced>>

\* Step 1: items due today
GenDue(p) ==
  /\ gen[p].pc = "due"
  /\ \E dueItems \in getItemsDue(gen[p].userId, "both", DueLimit) :
       Await(p, [gen[p] EXCEPT !.dueFlashcards = DueFlashcardsOf(dueItems),
                               !.dueMCQs = DueMCQsOf(dueItems),
                               !.pc = "weakTopics"])
  /\ UNCHANGED <<now, dbItems, respVars, jobVars, study_sessions, notifications, forced>>

\* Step 2: the weak topics; without any the weak-topic query is skipped
GenWeakTopics(p) ==
  /\ gen[p].pc = "weakTopics"
  /\ \E weakTopics \in getWeakTopics(gen[p].userId, WeakTopicLimit, WeakMinAttempts) :
       Await(p, [gen[p] EXCEPT !.weakTopics = weakTopics,
                               !.pc = IF Len(weakTopics) > 0 THEN "weakItems" ELSE "new"])
  /\ UNCHANGED <<now, dbItems, respVars, jobVars, study_sessions, notifications, forced>>

\* Step 2: the items of the weak topics
GenWeakItems(p) ==
  /\ gen[p].pc = "weakItems"
  /\ \E rows \in weakTopicQuery(gen[p].userId,
                                {gen[p].weakTopics[i].topic : i \in 1..Len(gen[p].weakTopics)}) :
       Await(p, [gen[p] EXCEPT !.weakTopicItems = rows, !.pc = "new"])
  /\ UNCHANGED <<now, dbItems, respVars, jobVars, study_sessions, notifications, forced>>

\* Step 3: the new items, then merge, dedupe and cap; an empty pack ends the call
GenNew(p) ==
  /\ gen[p].pc = "new"
  /\ \E rows \in newItemsQuery(gen[p].userId) :
       LET finalItems == FinalItems(gen[p].dueFlashcards, gen[p].dueMCQs,
                                    gen[p].weakTopicItems, rows)
           f == [gen[p] EXCEPT !.newItems = rows, !.finalItems = finalItems]
       IN  IF IsEmptyPack(finalItems)
           THEN Return(p, f, NoItemsAvailable)
           ELSE Await(p, [f EXCEPT !.pc = "insert"])
  /\ UNCHANGED <<now, dbItems, respVars, jobVars, study_sessions, notifications, forced>>

\* The session insert failed
GenInsertFail(p) ==
  /\ gen[p].pc = "insert"
  /\ Throw(p, gen[p], "query failed")
  /\ UNCHANGED <<now, dbItems, respVars, jobVars, study_sessions, notifications, forced>>

\* Create the study session record
GenInsert(p) ==
  /\ gen[p].pc = "insert"
  /\ LET session == NewSession(gen[p].userId, Len(gen[p].finalItems))
     IN  /\ study_sessions' = Append(study_sessions, session)
         /\ Await(p, [gen[p] EXCEPT !.sessionResult = <<session>>, !.pc = "notify"])
  /\ UNCHANGED <<now, dbItems, respVars, jobVars, notifications, forced>>

\* Send the notification and return the pack
GenNotify(p) ==
  /\ gen[p].pc = "notify"
  /\ \E o \in sendNotification(gen[p].userId, PackNotification(gen[p])) :
       /\ notifications' = o.table
       /\ IF o.threw THEN Throw(p, gen[p], "notification failed")
          ELSE Return(p, gen[p], PackResult(gen[p]))
  /\ UNCHANGED <<now, dbItems, respVars, jobVars, study_sessions, forced>>

\* cron.schedule('0 7 * * *'): runDailyScheduler starts and queries the users
RunDailyScheduler ==
  /\ batch.pc = "idle"
  /\ batch' = [batch EXCEPT !.pc = "users"]
  /\ UNCHANGED <<now, dbItems, respVars, jobVars, study_sessions, notifications, gen, httpRes, forced>>

\* The users query failed: the outer catch logs it and the run ends
BatchUsersFail ==
  /\ batch.pc = "users"
  /\ batch' = [batch EXCEPT !.pc = "done", !.error = TRUE]
  /\ UNCHANGED <<now, dbItems, respVars, jobVars, study_sessions, notifications, gen, httpRes, forced>>

\* The users arrive, in the order the database lists them; the loop calls
\* generateDailyPack for the first
BatchUsers ==
  /\ batch.pc = "users"
  /\ \E rows \in OrderByLimit(Users, LAMBDA a, b : FALSE, Cardinality(Users)) :
       /\ batch' = [batch EXCEPT !.users = rows, !.i = 1,
                                 !.pc = IF Len(rows) = 0 THEN "done" ELSE "loop"]
       /\ gen' = [gen EXCEPT ![Cron] = IF Len(rows) = 0 THEN @
                                       ELSE StartFrame(rows[1], FALSE)]
  /\ UNCHANGED <<now, dbItems, respVars, jobVars, study_sessions, notifications, httpRes, forced>>

\* The query invocation p awaits never answers: the promise stays pending,
\* and nothing bounds the wait of the invocation or of the loop that awaits it
GenBlock(p) ==
  /\ gen[p].pc \in {"check", "due", "weakTopics", "weakItems", "new", "insert"}
  /\ Await(p, [gen[p] EXCEPT !.pc = "blocked"])
  /\ UNCHANGED <<now, dbItems, respVars, jobVars, study_sessions, notifications, forced>>

\* The user finishes a session (driven from outside the scheduler)
CompleteSession(i) ==
  /\ i \in 1..Len(study_sessions)
  /\ study_sessions[i].status = "active"
  /\ study_sessions' = [study_sessions EXCEPT ![i].status = "completed"]
  /\ UNCHANGED <<now, dbItems, respVars, jobVars, notifications, gen, batch, httpRes, forced>>

\* Midnight passes
Tick ==
  /\ now < MaxDay
  /\ now' = now + 1
  /\ UNCHANGED <<dbItems, respVars, jobVars, study_sessions, notifications, gen, batch, httpRes, forced>>

\* ------------------------------------------------------------------------
\* The SM-2 update (services/sm2Algorithm.js) and POST /response
\* (routes/studyPack.js)
\* ------------------------------------------------------------------------
Max(a, b) == IF a > b THEN a ELSE b

\* The JavaScript value NaN, and NaN in a NUMERIC column
NaN == 0 - 2

\* A JavaScript value of the SM-2 arithmetic: a number, or a string that
\* holds the text of a number; the value is in hundredths, or NaN
JsNumber(v) == [type |-> "number", value |-> v]
JsString(v) == [type |-> "string", value |-> v]

\* result.rows of pool.query: no type parser is registered, so node-postgres
\* hands a NUMERIC column over as its text ("2.50"); INTEGER columns arrive
\* as numbers
pgNumeric(v) == JsString(v)

\* ToNumber: the number a value stands for in *, < and Math.round
ToNumber(x) == x.value

\* x + n for a number n.  On a number it adds.  On a string it appends the
\* text of n: "2.50" + 0 is "2.500", the same number; any other n of the
\* ease formula ("2.50-0.14", "2.500.1") leaves a text that is not a number
JsPlus(x, n) ==
  IF x.type = "string"
  THEN JsString(IF ToNumber(x) # NaN /\ n = 0 THEN ToNumber(x) ELSE NaN)
  ELSE JsNumber(IF ToNumber(x) = NaN THEN NaN ELSE ToNumber(x) + n)

\* x < n: false when x is not a number
JsLess(x, n) == ToNumber(x) # NaN /\ ToNumber(x) < n

\* Math.round(intervalDays * easeFactor), the ease factor in hundredths
RoundedInterval(intervalDays, easeFactor) ==
  IF ToNumber(easeFactor) = NaN THEN NaN
  ELSE (intervalDays * ToNumber(easeFactor) + 50) \div 100

\* 0.1 - (5 - easeRating) * (0.08 + (5 - easeRating) * 0.02), in hundredths
EaseAdjustment(easeRating) == 10 - (5 - easeRating) * (8 + (5 - easeRating) * 2)

\* if (newEaseFactor < 1.3) newEaseFactor = 1.3
EaseFloor(newEaseFactor) ==
  IF JsLess(newEaseFactor, 130) THEN JsNumber(130) ELSE newEaseFactor

\* The ease factor rounded to a whole number instead of two decimals
RoundedEase_wholeNumber(newEaseFactor) ==
  IF ToNumber(newEaseFactor) = NaN THEN NaN
  ELSE ((ToNumber(newEaseFactor) + 50) \div 100) * 100

\* Math.round(newEaseFactor * 100) / 100: a number, in hundredths
RoundedEase(newEaseFactor) == ToNumber(newEaseFactor)

\* calculateSM2 with an incorrect answer that leaves the interval as it is
calculateSM2_keepInterval(difficulty, intervalDays, easeFactor, reviewCount, isCorrect, easeRating) ==
  IF isCorrect
  THEN [difficulty |-> IF difficulty > 0 THEN Max(0, difficulty - 1) ELSE difficulty,
        interval |-> IF reviewCount = 0 THEN 1
                     ELSE IF reviewCount = 1 THEN 6
                     ELSE RoundedInterval(intervalDays, easeFactor),
        easeFactor |-> RoundedEase(EaseFloor(JsPlus(easeFactor, EaseAdjustment(easeRating))))]
  ELSE [difficulty |-> Min(5, difficulty + 1),
        interval |-> intervalDays,
        easeFactor |-> RoundedEase(easeFactor)]

\* calculateSM2; easeFactor is the value the caller read from the row
calculateSM2(difficulty, intervalDays, easeFactor, reviewCount, isCorrect, easeRating) ==
  IF isCorrect
  THEN [difficulty |-> IF difficulty > 0 THEN Max(0, difficulty - 1) ELSE difficulty,
        interval |-> IF reviewCount = 0 THEN 1
                     ELSE IF reviewCount = 1 THEN 6
                     ELSE RoundedInterval(intervalDays, easeFactor),
        easeFactor |-> RoundedEase(EaseFloor(JsPlus(easeFactor, EaseAdjustment(easeRating))))]
  ELSE [difficulty |-> Min(5, difficulty + 1),
        interval |-> 1,
        easeFactor |-> RoundedEase(easeFactor)]

\* A due date that counts the day of the answer as the first of the interval
NextDueDate_countsToday(interval) == IF interval = NaN THEN NaN ELSE now + interval - 1

\* nextDueDate.setDate(nextDueDate.getDate() + newValues.interval)
NextDueDate(interval) == IF interval = NaN THEN NaN ELSE now + interval

\* const tableName = itemType === 'flashcard' ? 'flashcards' : 'mcqs'
TableOf(itemType) == IF itemType = "flashcard" THEN flashcards ELSE mcqs

\* UPDATE ... SET difficulty, interval_days, ease_factor, due_at,
\*   last_reviewed = NOW(), review_count = review_count + 1 WHERE id = $5
UpdatedRow(row, newValues, nextDueDate) ==
  [row EXCEPT !.difficulty = newValues.difficulty,
              !.interval_days = newValues.interval,
              !.ease_factor = newValues.easeFactor,
              !.due_at = nextDueDate,
              !.last_reviewed = now,
              !.review_count = @ + 1]

\* easeRating || 3
RatingOrDefault(easeRating) == IF easeRating = Undefined THEN 3 ELSE easeRating

\* !itemId || !itemType || typeof isCorrect !== 'boolean'
MissingField(itemId, itemType) == itemId = Undefined \/ itemType = ""

\* The check without the join on the owner: any item of the table passes
ownerCheck_anyOwner(itemId, itemType, userId) ==
  {id \in DOMAIN TableOf(itemType) : id = itemId}

\* The owner check: SELECT i.id ... WHERE i.id = $1 AND s.user_id = $2
ownerCheck(itemId, itemType, userId) ==
  {r.id : r \in {x \in OwnedRows(userId, itemType) : x.id = itemId}}

\* The locals of one POST /response handler and of its updateSM2Algorithm call
IdleHandler ==
  [pc |-> "idle", userId |-> Undefined, itemId |-> Undefined, itemType |-> "",
   isCorrect |-> FALSE, easeRating |-> Undefined,
   newValues |-> [difficulty |-> 0, interval |-> 0, easeFactor |-> 0],
   nextDueDate |-> 0]

Respond(h, f, status) ==
  /\ resp' = [resp EXCEPT ![h] = [f EXCEPT !.pc = "done"]]
  /\ respRes' = [respRes EXCEPT ![h] = status]

\* The request arrives; a missing field is answered 400 before any query
PostResponse(h, userId, itemId, itemType, isCorrect, easeRating) ==
  /\ resp[h].pc = "idle"
  /\ LET f == [IdleHandler EXCEPT !.userId = userId, !.itemId = itemId,
                                  !.itemType = itemType, !.isCorrect = isCorrect,
                                  !.easeRating = easeRating]
     IN  IF MissingField(itemId, itemType)
         THEN Respond(h, f, 400)
         ELSE /\ resp' = [resp EXCEPT ![h] = [f EXCEPT !.pc = "ownerCheck"]]
              /\ UNCHANGED respRes
  /\ UNCHANGED <<now, dbItems, schedVars, jobVars, user_responses>>

\* A query of the handler failed: catch, 500 'Failed to record response'
RespQueryFail(h) ==
  /\ resp[h].pc \in {"ownerCheck", "insert", "select", "update"}
  /\ Respond(h, resp[h], 500)
  /\ UNCHANGED <<now, dbItems, schedVars, jobVars, user_responses>>

\* Verify the item belongs to the user: 404 if not
RespOwnerCheck(h) ==
  /\ resp[h].pc = "ownerCheck"
  /\ IF ownerCheck(resp[h].itemId, resp[h].itemType, resp[h].userId) = {}
     THEN Respond(h, resp[h], 404)
     ELSE /\ resp' = [resp EXCEPT ![h].pc = "insert"]
          /\ UNCHANGED respRes
  /\ UNCHANGED <<now, dbItems, schedVars, jobVars, user_responses>>

\* Record the response
RespInsert(h) ==
  /\ resp[h].pc = "insert"
  /\ user_responses' = Append(user_responses,
       [user_id |-> resp[h].userId, item_id |-> resp[h].itemId,
        item_type |-> resp[h].itemType, response_correct |-> resp[h].isCorrect,
        ease_rating |-> resp[h].easeRating, created_at |-> now])
  /\ resp' = [resp EXCEPT ![h].pc = "select"]
  /\ UNCHANGED <<now, dbItems, schedVars, jobVars, respRes>>

\* updateSM2Algorithm: read the current SM-2 values, compute the new ones
\* and the next due date; a missing row throws
RespSelect(h) ==
  /\ resp[h].pc = "select"
  /\ LET tbl == TableOf(resp[h].itemType)
     IN  IF resp[h].itemId \notin DOMAIN tbl
         THEN Respond(h, resp[h], 500)
         ELSE LET current == tbl[resp[h].itemId]
                  newValues == calculateSM2(current.difficulty, current.interval_days,
                                            pgNumeric(current.ease_factor),
                                            current.review_count,
                                            resp[h].isCorrect,
                                            RatingOrDefault(resp[h].easeRating))
              IN  /\ resp' = [resp EXCEPT ![h].newValues = newValues,
                                          ![h].nextDueDate = NextDueDate(newValues.interval),
                                          ![h].pc = "update"]
                  /\ UNCHANGED respRes
  /\ UNCHANGED <<now, dbItems, schedVars, jobVars, user_responses>>

\* interval_days is an INTEGER column and due_at a TIMESTAMP: the UPDATE
\* with interval NaN and an invalid date is refused by the database
UpdateRefused(newValues, nextDueDate) ==
  newValues.interval = NaN \/ nextDueDate = NaN

\* updateSM2Algorithm: write the new values, then the route answers 200; an
\* UPDATE the database refuses throws and the route answers 500
RespUpdate(h) ==
  /\ resp[h].pc = "update"
  /\ IF UpdateRefused(resp[h].newValues, resp[h].nextDueDate)
     THEN /\ Respond(h, resp[h], 500)
          /\ UNCHANGED <<flashcards, mcqs>>
     ELSE /\ LET id == resp[h].itemId
                 upd(tbl) == IF id \in DOMAIN tbl
                             THEN [tbl EXCEPT ![id] = UpdatedRow(@, resp[h].newValues,
                                                                 resp[h].nextDueDate)]
                             ELSE tbl
             IN  IF resp[h].itemType = "flashcard"
                 THEN flashcards' = upd(flashcards) /\ UNCHANGED mcqs
                 ELSE mcqs' = upd(mcqs) /\ UNCHANGED flashcards
          /\ Respond(h, resp[h], 200)
  /\ UNCHANGED <<now, study_sets, topic_performance, schedVars, jobVars, user_responses>>

\* ------------------------------------------------------------------------
\* Topic performance (services/sm2Algorithm.js)
\* ------------------------------------------------------------------------

\* The locals of one updateTopicPerformance or recalculateRollingAccuracy
\* invocation: topics is the array passed (empty for null), i the position
\* of the running loop, rows the accuracyResults
IdleJob ==
  [pc |-> "idle", userId |-> Undefined, topics |-> <<>>, isCorrect |-> FALSE,
   i |-> 0, rows |-> <<>>, error |-> FALSE]

\* INSERT INTO topic_performance (user_id, topic, total_attempts,
\*   correct_attempts) VALUES ($1, $2, 1, $3) ON CONFLICT (user_id, topic)
\*   DO UPDATE SET total_attempts + 1, correct_attempts + $3
UpsertTopic(tp, userId, topic, correct) ==
  IF <<userId, topic>> \in DOMAIN tp
  THEN [tp EXCEPT ![<<userId, topic>>].total_attempts = @ + 1,
                  ![<<userId, topic>>].correct_attempts = @ + correct]
  ELSE tp @@ (<<userId, topic>> :>
                [user_id |-> userId, topic |-> topic, total_attempts |-> 1,
                 correct_attempts |-> correct, accuracy_7day |-> 0])

\* The inner query without the bound on created_at
RecentResponses_allTime(userId) ==
  {k \in 1..Len(user_responses) :
     /\ user_responses[k].user_id = userId
     /\ user_responses[k].item_id \in DOMAIN TableOf(user_responses[k].item_type)}

\* The inner query: one row (unnest(ss.topics), response_correct) for every
\* response of the user of the last 7 days whose item joins a study set
RecentResponses(userId) ==
  {k \in 1..Len(user_responses) :
     /\ user_responses[k].user_id = userId
     /\ user_responses[k].created_at > now - RollingWindowDays
     /\ user_responses[k].item_id \in DOMAIN TableOf(user_responses[k].item_type)}

TopicsOfResponse(k) ==
  study_sets[TableOf(user_responses[k].item_type)[user_responses[k].item_id].study_set_id].topics

\* GROUP BY topic: COUNT(*) as recent_attempts, SUM(CASE WHEN
\* response_correct THEN 1 ELSE 0 END) as recent_correct.  The WHERE clause
\* built from the topics argument is not part of the query text
AccuracyResults(userId) ==
  LET recent == RecentResponses(userId)
  IN  { [topic |-> t,
         recent_attempts |-> Cardinality({k \in recent : t \in TopicsOfResponse(k)}),
         recent_correct |-> Cardinality({k \in recent : /\ t \in TopicsOfResponse(k)
                                                        /\ user_responses[k].response_correct})] :
        t \in UNION {TopicsOfResponse(k) : k \in recent} }

\* Rows of a query without ORDER BY come in any order
AnyOrder(a, b) == FALSE

\* recent_attempts > 0 ? (recent_correct / recent_attempts) * 100 : 0, as
\* the DECIMAL(5,2) column stores it: in hundredths, rounded
Accuracy(recent_correct, recent_attempts) ==
  IF recent_attempts > 0
  THEN (2 * 10000 * recent_correct + recent_attempts) \div (2 * recent_attempts)
  ELSE 0

\* The UPDATE also counting the run as an attempt
SetAccuracy_countsRun(tp, userId, topic, accuracy) ==
  IF <<userId, topic>> \in DOMAIN tp
  THEN [tp EXCEPT ![<<userId, topic>>].accuracy_7day = accuracy,
                  ![<<userId, topic>>].total_attempts = @ + 1]
  ELSE tp

\* UPDATE topic_performance SET accuracy_7day = $1 WHERE user_id = $2 AND topic = $3
SetAccuracy(tp, userId, topic, accuracy) ==
  IF <<userId, topic>> \in DOMAIN tp
  THEN [tp EXCEPT ![<<userId, topic>>].accuracy_7day = accuracy]
  ELSE tp

\* updateTopicPerformance(userId, topics, isCorrect) is called
UpdateTopicPerformance(userId, topics, isCorrect) ==
  /\ topicJob.pc = "idle"
  /\ \A k \in DOMAIN topic_performance : topic_performance[k].total_attempts < MaxAttempts
  /\ topicJob' = [IdleJob EXCEPT !.userId = userId, !.topics = topics,
                                 !.isCorrect = isCorrect, !.i = 1,
                                 !.pc = IF Len(topics) > 0 THEN "upsert" ELSE "query"]
  /\ UNCHANGED <<now, dbItems, respVars, schedVars, packJob>>

\* The upsert of the next topic of the loop; after the last the recalculation
TopicUpsert ==
  /\ topicJob.pc = "upsert"
  /\ topic_performance' = UpsertTopic(topic_performance, topicJob.userId,
                                      topicJob.topics[topicJob.i],
                                      IF topicJob.isCorrect THEN 1 ELSE 0)
  /\ topicJob' = [topicJob EXCEPT !.i = @ + 1,
                                  !.pc = IF topicJob.i < Len(topicJob.topics)
                                         THEN "upsert" ELSE "query"]
  /\ UNCHANGED <<now, study_sets, flashcards, mcqs, respVars, schedVars, packJob>>

\* updateAllTopicPerformance: recalculateRollingAccuracy(user_id) for a user
\* of SELECT DISTINCT user_id FROM user_responses
RecalculateRollingAccuracy(userId) ==
  /\ topicJob.pc = "idle"
  /\ \E k \in 1..Len(user_responses) : user_responses[k].user_id = userId
  /\ topicJob' = [IdleJob EXCEPT !.userId = userId, !.pc = "query"]
  /\ UNCHANGED <<now, dbItems, respVars, schedVars, packJob>>

\* recalculateRollingAccuracy: the accuracy query
RecalcQuery ==
  /\ topicJob.pc = "query"
  /\ LET results == AccuracyResults(topicJob.userId)
     IN  \E rows \in OrderByLimit(results, AnyOrder, Cardinality(results)) :
           topicJob' = [topicJob EXCEPT !.rows = rows, !.i = 1,
                                        !.pc = IF Len(rows) > 0 THEN "update" ELSE "done"]
  /\ UNCHANGED <<now, dbItems, respVars, schedVars, packJob>>

\* recalculateRollingAccuracy: the UPDATE of the next row of the loop
RecalcUpdate ==
  /\ topicJob.pc = "update"
  /\ LET row == topicJob.rows[topicJob.i]
     IN  topic_performance' = SetAccuracy(topic_performance, topicJob.userId, row.topic,
                                          Accuracy(row.recent_correct, row.recent_attempts))
  /\ topicJob' = [topicJob EXCEPT !.i = @ + 1,
                                  !.pc = IF topicJob.i < Len(topicJob.rows)
                                         THEN "update" ELSE "done"]
  /\ UNCHANGED <<now, study_sets, flashcards, mcqs, respVars, schedVars, packJob>>

\* A query of the invocation failed: the error is logged and thrown
TopicJobFail ==
  /\ topicJob.pc \in {"upsert", "query", "update"}
  /\ topicJob' = [topicJob EXCEPT !.pc = "done", !.error = TRUE]
  /\ UNCHANGED <<now, dbItems, respVars, schedVars, packJob>>

\* The invocation has settled; the next one may start
TopicJobReturn ==
  /\ topicJob.pc = "done"
  /\ topicJob' = IdleJob
  /\ UNCHANGED <<now, dbItems, respVars, schedVars, packJob>>

\* ------------------------------------------------------------------------
\* Study pack generation
\* ------------------------------------------------------------------------
\* SQL NULL
Null == 0 - 1

\* A row as INSERT INTO flashcards / mcqs leaves it (schema defaults)
NewItemRow(id, studySetId, difficulty, createdAt) ==
  [id |-> id, study_set_id |-> studySetId, difficulty |-> difficulty,
   interval_days |-> 1, ease_factor |-> 250, due_at |-> createdAt,
   last_reviewed |-> Null, review_count |-> 0, created_at |-> createdAt]

IdlePack ==
  [pc |-> "idle", userId |-> Undefined, topics |-> <<>>, difficulty |-> Undefined,
   manualGeneration |-> FALSE, studySetId |-> Undefined,
   flashcardsData |-> 0, mcqsData |-> 0, status |-> Undefined]

\* A parameter with a default takes it when the argument is undefined
OrDefault(v, d) == IF v = Undefined THEN d ELSE v

\* preferences?.difficulty_level || 2
PreferredDifficulty(v) == IF v = Undefined \/ v = 0 THEN 2 ELSE v

\* The largest id of the table, 0 when it is empty
LastId(table) ==
  IF DOMAIN table = {} THEN 0
  ELSE CHOOSE n \in DOMAIN table : \A m \in DOMAIN table : m <= n

\* An id the table does not hold yet (gen_random_uuid())
FreshId(table) == LastId(table) + 1

\* The table with n copies of row added, each under a fresh id
InsertRows(table, n, row) ==
  LET base == LastId(table)
  IN  [id \in DOMAIN table \cup ((base + 1)..(base + n)) |->
         IF id \in DOMAIN table THEN table[id] ELSE [row EXCEPT !.id = id]]

\* INSERT INTO flashcards (study_set_id, ..., difficulty, due_at)
StoredFlashcard(studySetId, difficulty) ==
  NewItemRow(Undefined, studySetId, difficulty, now)

\* INSERT INTO mcqs (study_set_id, ..., difficulty, due_at)
StoredMCQ(studySetId, difficulty) ==
  NewItemRow(Undefined, studySetId, difficulty, now)

\* POST /generate: 400 without topics and sources, else generateStudyPack
\* with manualGeneration
PostGenerate(userId, topics, sourceIds, difficulty) ==
  /\ packJob.pc = "idle"
  /\ Cardinality({i \in DOMAIN study_sets : study_sets[i].user_id = userId}) < MaxPacks
  /\ packJob' = IF Len(topics) = 0 /\ Len(sourceIds) = 0
                THEN [IdlePack EXCEPT !.pc = "done", !.status = 400]
                ELSE [IdlePack EXCEPT !.pc = "retrieve", !.userId = userId,
                                      !.topics = topics,
                                      !.difficulty = OrDefault(difficulty, 2),
                                      !.manualGeneration = TRUE]
  /\ UNCHANGED <<now, dbItems, respVars, schedVars, topicJob>>

\* autoGenerateStudyPacks: generateStudyPack for a user with new content
AutoGenerate(userId, topics, difficultyLevel) ==
  /\ packJob.pc = "idle"
  /\ Cardinality({i \in DOMAIN study_sets : study_sets[i].user_id = userId}) < MaxPacks
  /\ packJob' = [IdlePack EXCEPT !.pc = "retrieve", !.userId = userId,
                                 !.topics = topics,
                                 !.difficulty = PreferredDifficulty(difficultyLevel),
                                 !.manualGeneration = FALSE]
  /\ UNCHANGED <<now, dbItems, respVars, schedVars, topicJob>>

\* Step 1: retrieval; no relevant content throws
PackRetrieve ==
  /\ packJob.pc = "retrieve"
  /\ \E found \in BOOLEAN :
       /\ Len(packJob.topics) = 0 => ~found
       /\ packJob' = IF found THEN [packJob EXCEPT !.pc = "insertSet"]
                     ELSE [packJob EXCEPT !.pc = "done", !.status = 500]
  /\ UNCHANGED <<now, dbItems, respVars, schedVars, topicJob>>

\* Step 2: the study set record
PackInsertSet ==
  /\ packJob.pc = "insertSet"
  /\ LET id == FreshId(study_sets)
     IN  /\ study_sets' = [i \in DOMAIN study_sets \cup {id} |->
                             IF i = id
                             THEN [id |-> id, user_id |-> packJob.userId,
                                   topics |-> Range(packJob.topics),
                                   difficulty_level |-> packJob.difficulty]
                             ELSE study_sets[i]]
         /\ packJob' = [packJob EXCEPT !.pc = "generate", !.studySetId = id]
  /\ UNCHANGED <<now, flashcards, mcqs, topic_performance, respVars, schedVars, topicJob>>

\* Step 3: the generated flashcards and MCQs
PackGenerate ==
  /\ packJob.pc = "generate"
  /\ \E nF \in 0..MaxGenF, nM \in 0..MaxGenM :
       packJob' = [packJob EXCEPT !.pc = "store", !.flashcardsData = nF,
                                  !.mcqsData = nM]
  /\ UNCHANGED <<now, dbItems, respVars, schedVars, topicJob>>

\* Step 4: the generated items are stored in one transaction
PackStore ==
  /\ packJob.pc = "store"
  /\ flashcards' = InsertRows(flashcards, packJob.flashcardsData,
                              StoredFlashcard(packJob.studySetId, packJob.difficulty))
  /\ mcqs' = InsertRows(mcqs, packJob.mcqsData,
                        StoredMCQ(packJob.studySetId, packJob.difficulty))
  /\ packJob' = IF packJob.manualGeneration
                THEN [packJob EXCEPT !.pc = "done", !.status = 200]
                ELSE [packJob EXCEPT !.pc = "notify"]
  /\ UNCHANGED <<now, study_sets, topic_performance, respVars, schedVars, topicJob>>

\* Step 5: the notification of a pack that was not requested by hand
PackNotify ==
  /\ packJob.pc = "notify"
  /\ \E sent \in sendNotification(packJob.userId,
                                  [type |-> "study_pack_ready",
                                   data |-> [studySetId |-> packJob.studySetId,
                                             flashcardsCount |-> packJob.flashcardsData,
                                             mcqsCount |-> packJob.mcqsData]]) :
       /\ notifications' = sent.table
       /\ packJob' = [packJob EXCEPT !.pc = "done",
                                     !.status = IF sent.threw THEN 500 ELSE 200]
  /\ UNCHANGED <<now, dbItems, respVars, study_sessions, gen, batch, httpRes, forced,
                 topicJob>>

\* A query or the content generation failed: the error is thrown
PackFail ==
  /\ packJob.pc \in {"retrieve", "insertSet", "generate", "store"}
  /\ packJob' = [packJob EXCEPT !.pc = "done", !.status = 500]
  /\ UNCHANGED <<now, dbItems, respVars, schedVars, topicJob>>

\* The invocation has settled; the next one may start
PackReturn ==
  /\ packJob.pc = "done"
  /\ packJob' = IdlePack
  /\ UNCHANGED <<now, dbItems, respVars, schedVars, topicJob>>

\* ------------------------------------------------------------------------
\* Initial states
\* ------------------------------------------------------------------------

\* The users of the scheduler runs own, in turn: a new flashcard and a
\* reviewed MCQ of a topic the user is weak in; nothing; a new flashcard
KindOf(u) == IF u % 3 = 1 THEN "weak" ELSE IF u % 3 = 2 THEN "none" ELSE "fresh"

SchedulerInit(kind) ==
  /\ now = 0
  /\ study_sets = [u \in {v \in Users : kind[v] # "none"} |->
                     [id |-> u, user_id |-> u, topics |-> {"t1"}, difficulty_level |-> 2]]
  /\ flashcards = [u \in {v \in Users : kind[v] # "none"} |-> NewItemRow(u, u, 2, 0)]
  /\ mcqs = [u \in {v \in Users : kind[v] = "weak"} |->
               [NewItemRow(u, u, 3, 0) EXCEPT !.review_count = 3, !.interval_days = 6,
                                              !.last_reviewed = 0, !.due_at = 6]]
  /\ topic_performance =
       [k \in {<<v, "t1">> : v \in {w \in Users : kind[w] = "weak"}} |->
          [user_id |-> k[1], topic |-> k[2], total_attempts |-> 3,
           correct_attempts |-> 1, accuracy_7day |-> 3333]]
  /\ study_sessions = <<>>
  /\ notifications = <<>>
  /\ gen = [p \in Procs |-> IdleFrame]
  /\ batch = [pc |-> "idle", users |-> <<>>, i |-> 0, log |-> <<>>, error |-> FALSE]
  /\ httpRes = [p \in Reqs |-> NoResponse]
  /\ forced = {}
  /\ user_responses = <<>>
  /\ resp = [h \in Handlers |-> IdleHandler]
  /\ respRes = [h \in Handlers |-> Undefined]
  /\ topicJob = IdleJob
  /\ packJob = IdlePack

Init == SchedulerInit([u \in Users |-> KindOf(u)])

Next ==
  \/ \E p \in Reqs, u \in Users : GetDaily(p, u)
  \/ \E p \in Reqs, u \in Users : TriggerDaily(p, u)
  \/ \E p \in Procs : GenCheckFail(p)
  \/ \E p \in Procs : GenCheck(p)
  \/ \E p \in Procs : GenQueryFail(p)
  \/ \E p \in Procs : GenDue(p)
  \/ \E p \in Procs : GenWeakTopics(p)
  \/ \E p \in Procs : GenWeakItems(p)
  \/ \E p \in Procs : GenNew(p)
  \/ \E p \in Procs : GenInsertFail(p)
  \/ \E p \in Procs : GenInsert(p)
  \/ \E p \in Procs : GenNotify(p)
  \/ RunDailyScheduler
  \/ BatchUsersFail
  \/ BatchUsers
  \/ \E i \in 1..Len(study_sessions) : CompleteSession(i)
  \/ Tick

Spec == Init /\ [][Next]_vars

\* The steps of the batch run that a running event loop and an answering
\* database take sooner or later
BatchProgress ==
  \/ BatchUsers
  \/ GenCheck(Cron)
  \/ GenDue(Cron)
  \/ GenWeakTopics(Cron)
  \/ GenWeakItems(Cron)
  \/ GenNew(Cron)
  \/ GenInsert(Cron)
  \/ GenNotify(Cron)

\* The batch run alone; a query may fail, or never answer
NextBatch ==
  \/ RunDailyScheduler
  \/ BatchUsersFail
  \/ BatchUsers
  \/ GenCheckFail(Cron)
  \/ GenCheck(Cron)
  \/ GenQueryFail(Cron)
  \/ GenBlock(Cron)
  \/ GenDue(Cron)
  \/ GenWeakTopics(Cron)
  \/ GenWeakItems(Cron)
  \/ GenNew(Cron)
  \/ GenInsertFail(Cron)
  \/ GenInsert(Cron)
  \/ GenNotify(Cron)
  \/ \E i \in 1..Len(study_sessions) : CompleteSession(i)
  \/ Tick

SpecBatch == Init /\ [][NextBatch]_vars /\ WF_vars(BatchProgress)

\* The submissions tried: user 1 answers on item 1 (own), item 2 (of user 2)
\* or without an item id; no rating, ratings 2 and 4, and 5 which is out of range
SubmitItemIds == {Undefined, 1, 2}
SubmitRatings == {Undefined, 2, 4, 5}

\* User 1 owns flashcard 1 and MCQ 1, user 2 owns flashcard 2; all new
ResponseInit ==
  /\ now = 0
  /\ study_sets = [u \in {1, 2} |->
                     [id |-> u, user_id |-> u, topics |-> {"t1"}, difficulty_level |-> 2]]
  /\ flashcards = [i \in {1, 2} |-> NewItemRow(i, i, 2, 0)]
  /\ mcqs = [i \in {1} |-> NewItemRow(i, i, 2, 0)]
  /\ topic_performance = <<>>
  /\ study_sessions = <<>>
  /\ notifications = <<>>
  /\ gen = [p \in Procs |-> IdleFrame]
  /\ batch = [pc |-> "idle", users |-> <<>>, i |-> 0, log |-> <<>>, error |-> FALSE]
  /\ httpRes = [p \in Reqs |-> NoResponse]
  /\ forced = {}
  /\ user_responses = <<>>
  /\ resp = [h \in Handlers |-> IdleHandler]
  /\ respRes = [h \in Handlers |-> Undefined]
  /\ topicJob = IdleJob
  /\ packJob = IdlePack

NextResponse ==
  \/ \E h \in Handlers, itemId \in SubmitItemIds, itemType \in {"flashcard", "mcq"},
        isCorrect \in BOOLEAN, easeRating \in SubmitRatings :
       PostResponse(h, 1, itemId, itemType, isCorrect, easeRating)
  \/ \E h \in Handlers : RespQueryFail(h)
  \/ \E h \in Handlers : RespOwnerCheck(h)
  \/ \E h \in Handlers : RespInsert(h)
  \/ \E h \in Handlers : RespSelect(h)
  \/ \E h \in Handlers : RespUpdate(h)

SpecResponse == ResponseInit /\ [][NextResponse]_vars

\* The same submissions with every query answered
NextAnswered ==
  \/ \E h \in Handlers, itemId \in SubmitItemIds, itemType \in {"flashcard", "mcq"},
        isCorrect \in BOOLEAN, easeRating \in SubmitRatings :
       PostResponse(h, 1, itemId, itemType, isCorrect, easeRating)
  \/ \E h \in Handlers : RespOwnerCheck(h)
  \/ \E h \in Handlers : RespInsert(h)
  \/ \E h \in Handlers : RespSelect(h)
  \/ \E h \in Handlers : RespUpdate(h)

SpecAnswered == ResponseInit /\ [][NextAnswered]_vars

\* ------------------------------------------------------------------------
\* A user reviewing items, one submission after the other
\* ------------------------------------------------------------------------

\* The ratings submitted: none, 1, 3 and 4, and 5 which is out of range
ReviewRatings == {Undefined, 1, 3, 4, 5}

\* An item that was answered before
SeenItemRow(id, studySetId, difficulty, intervalDays, easeFactor, reviewCount) ==
  [NewItemRow(id, studySetId, difficulty, 0) EXCEPT
     !.interval_days = intervalDays, !.ease_factor = easeFactor,
     !.review_count = reviewCount, !.last_reviewed = 0]

\* User 1 owns flashcard 1, new, and flashcard 2, answered twice before:
\* the hardest difficulty, interval 6, ease factor 1.30
ReviewInit ==
  /\ now = 0
  /\ study_sets = [i \in {1} |->
                     [id |-> 1, user_id |-> 1, topics |-> {"t1", "t2"},
                      difficulty_level |-> 2]]
  /\ flashcards = [i \in {1, 2} |->
                     IF i = 1 THEN NewItemRow(1, 1, 2, 0)
                     ELSE SeenItemRow(2, 1, 5, 6, 130, 2)]
  /\ mcqs = <<>>
  /\ topic_performance = <<>>
  /\ study_sessions = <<>>
  /\ notifications = <<>>
  /\ gen = [p \in Procs |-> IdleFrame]
  /\ batch = [pc |-> "idle", users |-> <<>>, i |-> 0, log |-> <<>>, error |-> FALSE]
  /\ httpRes = [p \in Reqs |-> NoResponse]
  /\ forced = {}
  /\ user_responses = <<>>
  /\ resp = [h \in Handlers |-> IdleHandler]
  /\ respRes = [h \in Handlers |-> Undefined]
  /\ topicJob = IdleJob
  /\ packJob = IdlePack

\* The route serves the next request once the last one is answered
NextRequest(h) ==
  /\ resp[h].pc = "done"
  /\ Len(user_responses) < MaxReviews
  /\ resp' = [resp EXCEPT ![h] = IdleHandler]
  /\ respRes' = [respRes EXCEPT ![h] = Undefined]
  /\ UNCHANGED <<now, dbItems, schedVars, jobVars, user_responses>>

NextReview ==
  \/ \E itemId \in {1, 2}, isCorrect \in BOOLEAN, easeRating \in ReviewRatings :
       PostResponse(1, 1, itemId, "flashcard", isCorrect, easeRating)
  \/ RespOwnerCheck(1)
  \/ RespInsert(1)
  \/ RespSelect(1)
  \/ RespUpdate(1)
  \/ NextRequest(1)

SpecReview == ReviewInit /\ [][NextReview]_vars

\* ------------------------------------------------------------------------
\* GET /weak-topics against topic tables
\* ------------------------------------------------------------------------

\* router.get('/weak-topics'): getWeakTopics(req.userId, limit, minAttempts)
\* answered as { weakTopics, count }; req is the query of the exchange
GetWeakTopics(p, userId, limit, minAttempts) ==
  /\ p \in Reqs /\ gen[p].pc = "idle" /\ httpRes[p] = NoResponse
  /\ \E weakTopics \in getWeakTopics(userId, limit, minAttempts) :
       httpRes' = [httpRes EXCEPT ![p] =
                     [status |-> 200,
                      pack |-> [weakTopics |-> weakTopics, count |-> Len(weakTopics)],
                      req |-> [userId |-> userId, limit |-> limit,
                               minAttempts |-> minAttempts]]]
  /\ UNCHANGED <<now, dbItems, respVars, jobVars, study_sessions, notifications, gen, batch, forced>>

\* The query of GET /weak-topics failed: 500 'Failed to fetch weak topics'
GetWeakTopicsFail(p, userId, limit, minAttempts) ==
  /\ p \in Reqs /\ gen[p].pc = "idle" /\ httpRes[p] = NoResponse
  /\ httpRes' = [httpRes EXCEPT ![p] =
                   [status |-> 500, pack |-> NoResult,
                    req |-> [userId |-> userId, limit |-> limit,
                             minAttempts |-> minAttempts]]]
  /\ UNCHANGED <<now, dbItems, respVars, jobVars, study_sessions, notifications, gen, batch, forced>>

\* The topics, 7-day accuracies, attempt counts, limits and minimal attempts tried
TopicNames == {"A", "B", "C"}
Accuracies == {4000, 7000, 8000}
AttemptCounts == {2, 5, 10}
WeakLimits == {1, 2, 10}
MinAttemptsTried == {1, 3, 6}

TopicRow(userId, topic, accuracy, attempts) ==
  [user_id |-> userId, topic |-> topic, total_attempts |-> attempts,
   correct_attempts |-> (attempts * accuracy) \div 10000, accuracy_7day |-> accuracy]

\* User 1 has a record for any of the topics, user 2 one for topic A
WeakTopicsInit ==
  /\ now = 0
  /\ study_sets = <<>>
  /\ flashcards = <<>>
  /\ mcqs = <<>>
  /\ \E present \in SUBSET TopicNames :
       \E acc \in [present -> Accuracies], att \in [present -> AttemptCounts] :
         topic_performance =
           [k \in {<<1, t>> : t \in present} \cup {<<2, "A">>} |->
              IF k[1] = 1 THEN TopicRow(1, k[2], acc[k[2]], att[k[2]])
              ELSE TopicRow(2, "A", 4000, 10)]
  /\ study_sessions = <<>>
  /\ notifications = <<>>
  /\ gen = [p \in Procs |-> IdleFrame]
  /\ batch = [pc |-> "idle", users |-> <<>>, i |-> 0, log |-> <<>>, error |-> FALSE]
  /\ httpRes = [p \in Reqs |-> NoResponse]
  /\ forced = {}
  /\ user_responses = <<>>
  /\ resp = [h \in Handlers |-> IdleHandler]
  /\ respRes = [h \in Handlers |-> Undefined]
  /\ topicJob = IdleJob
  /\ packJob = IdlePack

NextWeakTopics ==
  \/ \E limit \in WeakLimits, minAttempts \in MinAttemptsTried :
       GetWeakTopics(1, 1, limit, minAttempts)
  \/ \E limit \in WeakLimits, minAttempts \in MinAttemptsTried :
       GetWeakTopicsFail(1, 1, limit, minAttempts)

SpecWeakTopics == WeakTopicsInit /\ [][NextWeakTopics]_vars

\* ------------------------------------------------------------------------
\* Responses and topic performance
\* ------------------------------------------------------------------------

\* The topic arrays passed to updateTopicPerformance
TopicArrays == {<<"t1">>, <<"t2">>, <<"t1", "t2">>}

\* Day 10.  User 1 owns flashcard 1 of a study set tagged t1 and t2.  With
\* old, the flashcard was answered correctly on day 0, outside the 7-day
\* window; with seeded, both topics have a record of one correct attempt
TopicsInit(old, seeded) ==
  /\ now = 10
  /\ study_sets = [i \in {1} |->
                     [id |-> 1, user_id |-> 1, topics |-> {"t1", "t2"},
                      difficulty_level |-> 2]]
  /\ flashcards = [i \in {1} |->
                     IF old THEN SeenItemRow(1, 1, 1, 1, 250, 1)
                     ELSE NewItemRow(1, 1, 2, 0)]
  /\ mcqs = <<>>
  /\ topic_performance =
       [k \in (IF seeded THEN {<<1, "t1">>, <<1, "t2">>} ELSE {}) |->
          [user_id |-> 1, topic |-> k[2], total_attempts |-> 1,
           correct_attempts |-> 1, accuracy_7day |-> 10000]]
  /\ study_sessions = <<>>
  /\ notifications = <<>>
  /\ gen = [p \in Procs |-> IdleFrame]
  /\ batch = [pc |-> "idle", users |-> <<>>, i |-> 0, log |-> <<>>, error |-> FALSE]
  /\ httpRes = [p \in Reqs |-> NoResponse]
  /\ forced = {}
  /\ user_responses =
       IF old THEN <<[user_id |-> 1, item_id |-> 1, item_type |-> "flashcard",
                      response_correct |-> TRUE, ease_rating |-> 4, created_at |-> 0]>>
       ELSE <<>>
  /\ resp = [h \in Handlers |-> IdleHandler]
  /\ respRes = [h \in Handlers |-> Undefined]
  /\ topicJob = IdleJob
  /\ packJob = IdlePack

InitTopics == \E old \in BOOLEAN, seeded \in BOOLEAN : TopicsInit(old, seeded)

NextTopics ==
  \/ \E isCorrect \in BOOLEAN :
       PostResponse(1, 1, 1, "flashcard", isCorrect, Undefined)
  \/ RespOwnerCheck(1)
  \/ RespInsert(1)
  \/ RespSelect(1)
  \/ RespUpdate(1)
  \/ NextRequest(1)
  \/ \E topics \in TopicArrays, isCorrect \in BOOLEAN :
       UpdateTopicPerformance(1, topics, isCorrect)
  \/ TopicUpsert
  \/ RecalculateRollingAccuracy(1)
  \/ RecalcQuery
  \/ RecalcUpdate
  \/ TopicJobFail
  \/ TopicJobReturn

SpecTopics == InitTopics /\ [][NextTopics]_vars

\* ------------------------------------------------------------------------
\* A topic whose responses have left the window
\* ------------------------------------------------------------------------

\* Day 10.  User 1 owns flashcard 1 of a study set tagged t1, not answered
\* yet, and flashcard 2 of a study set tagged t3, answered correctly on day
\* 0.  The record of t3 is as the upsert of that answer made it, its
\* accuracy never recalculated; the record of t1 is the one of an answer
\* that has left the table
StaleInit ==
  /\ now = 10
  /\ study_sets = [i \in {1, 2} |->
                     [id |-> i, user_id |-> 1,
                      topics |-> IF i = 1 THEN {"t1"} ELSE {"t3"},
                      difficulty_level |-> 2]]
  /\ flashcards = [i \in {1, 2} |->
                     IF i = 1 THEN NewItemRow(1, 1, 2, 0)
                     ELSE SeenItemRow(2, 2, 3, 1, 250, 1)]
  /\ mcqs = <<>>
  /\ topic_performance =
       [k \in {<<1, "t1">>, <<1, "t3">>} |->
          IF k[2] = "t1"
          THEN [user_id |-> 1, topic |-> "t1", total_attempts |-> 1,
                correct_attempts |-> 1, accuracy_7day |-> 10000]
          ELSE [user_id |-> 1, topic |-> "t3", total_attempts |-> 1,
                correct_attempts |-> 1, accuracy_7day |-> 0]]
  /\ study_sessions = <<>>
  /\ notifications = <<>>
  /\ gen = [p \in Procs |-> IdleFrame]
  /\ batch = [pc |-> "idle", users |-> <<>>, i |-> 0, log |-> <<>>, error |-> FALSE]
  /\ httpRes = [p \in Reqs |-> NoResponse]
  /\ forced = {}
  /\ user_responses =
       <<[user_id |-> 1, item_id |-> 2, item_type |-> "flashcard",
          response_correct |-> TRUE, ease_rating |-> 4, created_at |-> 0]>>
  /\ resp = [h \in Handlers |-> IdleHandler]
  /\ respRes = [h \in Handlers |-> Undefined]
  /\ topicJob = IdleJob
  /\ packJob = IdlePack

\* User 1 answers the two flashcards while topic performance is updated and
\* recalculated
NextStale ==
  \/ \E itemId \in {1, 2}, isCorrect \in BOOLEAN :
       PostResponse(1, 1, itemId, "flashcard", isCorrect, Undefined)
  \/ RespOwnerCheck(1)
  \/ RespInsert(1)
  \/ RespSelect(1)
  \/ RespUpdate(1)
  \/ NextRequest(1)
  \/ \E topics \in {<<"t1">>, <<"t3">>}, isCorrect \in BOOLEAN :
       UpdateTopicPerformance(1, topics, isCorrect)
  \/ TopicUpsert
  \/ RecalculateRollingAccuracy(1)
  \/ RecalcQuery
  \/ RecalcUpdate
  \/ TopicJobFail
  \/ TopicJobReturn

SpecStale == StaleInit /\ [][NextStale]_vars

\* ------------------------------------------------------------------------
\* Items from their creation on
\* ------------------------------------------------------------------------

\* The difficulties asked for: none, the top of the scale, one beyond it
GenDifficulties == {Undefined, 5, 7}

\* No study set yet: every item is created by a generateStudyPack
CreateInit ==
  /\ now = 0
  /\ study_sets = <<>>
  /\ flashcards = <<>>
  /\ mcqs = <<>>
  /\ topic_performance = <<>>
  /\ study_sessions = <<>>
  /\ notifications = <<>>
  /\ gen = [p \in Procs |-> IdleFrame]
  /\ batch = [pc |-> "idle", users |-> <<>>, i |-> 0, log |-> <<>>, error |-> FALSE]
  /\ httpRes = [p \in Reqs |-> NoResponse]
  /\ forced = {}
  /\ user_responses = <<>>
  /\ resp = [h \in Handlers |-> IdleHandler]
  /\ respRes = [h \in Handlers |-> Undefined]
  /\ topicJob = IdleJob
  /\ packJob = IdlePack

\* Packs are generated for user 1, who answers the items, one at a time
NextCreate ==
  \/ \E topics \in {<<>>, <<"t1">>}, sourceIds \in {<<>>, <<1>>},
        difficulty \in GenDifficulties :
       PostGenerate(1, topics, sourceIds, difficulty)
  \/ \E difficultyLevel \in {Undefined, 3} : AutoGenerate(1, <<"t1">>, difficultyLevel)
  \/ PackRetrieve
  \/ PackInsertSet
  \/ PackGenerate
  \/ PackStore
  \/ PackNotify
  \/ PackFail
  \/ PackReturn
  \/ \E itemType \in {"flashcard", "mcq"}, isCorrect \in BOOLEAN,
        easeRating \in {Undefined, 4} :
       PostResponse(1, 1, 1, itemType, isCorrect, easeRating)
  \/ RespOwnerCheck(1)
  \/ RespInsert(1)
  \/ RespSelect(1)
  \/ RespUpdate(1)
  \/ NextRequest(1)

SpecCreate == CreateInit /\ [][NextCreate]_vars

\* ------------------------------------------------------------------------
\* Two users
\* ------------------------------------------------------------------------

\* User 1 owns a new flashcard and an MCQ answered before, of topic t1, in
\* which both users are weak; user 2 owns nothing yet
TenantsInit ==
  /\ now = 0
  /\ study_sets = [i \in {1} |->
                     [id |-> 1, user_id |-> 1, topics |-> {"t1"}, difficulty_level |-> 2]]
  /\ flashcards = [i \in {1} |-> NewItemRow(1, 1, 2, 0)]
  /\ mcqs = [i \in {1} |-> SeenItemRow(1, 1, 3, 6, 250, 2)]
  /\ topic_performance = [k \in {<<1, "t1">>, <<2, "t1">>} |-> TopicRow(k[1], "t1", 4000, 10)]
  /\ study_sessions = <<>>
  /\ notifications = <<>>
  /\ gen = [p \in Procs |-> IdleFrame]
  /\ batch = [pc |-> "idle", users |-> <<>>, i |-> 0, log |-> <<>>, error |-> FALSE]
  /\ httpRes = [p \in Reqs |-> NoResponse]
  /\ forced = {}
  /\ user_responses = <<>>
  /\ resp = [h \in Handlers |-> IdleHandler]
  /\ respRes = [h \in Handlers |-> Undefined]
  /\ topicJob = IdleJob
  /\ packJob = IdlePack

\* User 2 generates a study pack of topic t1, of the highest difficulty, and
\* answers its items, which get id 2, while a daily pack is composed for
\* user 1 or for user 2
NextTenants ==
  \/ \E u \in {1, 2} : GetDaily(1, u)
  \/ GenCheck(1)
  \/ GenDue(1)
  \/ GenWeakTopics(1)
  \/ GenWeakItems(1)
  \/ GenNew(1)
  \/ GenInsert(1)
  \/ GenNotify(1)
  \/ PostGenerate(2, <<"t1">>, <<>>, 5)
  \/ PackRetrieve
  \/ PackInsertSet
  \/ PackGenerate
  \/ PackStore
  \/ PackReturn
  \/ \E itemType \in {"flashcard", "mcq"}, isCorrect \in BOOLEAN :
       PostResponse(1, 2, 2, itemType, isCorrect, 4)
  \/ RespOwnerCheck(1)
  \/ RespInsert(1)
  \/ RespSelect(1)
  \/ RespUpdate(1)
  \/ NextRequest(1)

SpecTenants == TenantsInit /\ [][NextTenants]_vars

\* ------------------------------------------------------------------------
\* A daily pack composed while answers are submitted
\* ------------------------------------------------------------------------

\* The items of ReviewInit, an MCQ answered before, and topic t1 weak
StudyInit ==
  /\ now = 0
  /\ study_sets = [i \in {1} |->
                     [id |-> 1, user_id |-> 1, topics |-> {"t1", "t2"},
                      difficulty_level |-> 2]]
  /\ flashcards = [i \in {1, 2} |->
                     IF i = 1 THEN NewItemRow(1, 1, 2, 0)
                     ELSE SeenItemRow(2, 1, 5, 6, 130, 2)]
  /\ mcqs = [i \in {1} |-> SeenItemRow(1, 1, 3, 6, 250, 2)]
  /\ topic_performance = [k \in {<<1, "t1">>} |-> TopicRow(1, "t1", 4000, 10)]
  /\ study_sessions = <<>>
  /\ notifications = <<>>
  /\ gen = [p \in Procs |-> IdleFrame]
  /\ batch = [pc |-> "idle", users |-> <<>>, i |-> 0, log |-> <<>>, error |-> FALSE]
  /\ httpRes = [p \in Reqs |-> NoResponse]
  /\ forced = {}
  /\ user_responses = <<>>
  /\ resp = [h \in Handlers |-> IdleHandler]
  /\ respRes = [h \in Handlers |-> Undefined]
  /\ topicJob = IdleJob
  /\ packJob = IdlePack

\* One GET /daily of user 1 and one submission per handler, in any interleaving
NextStudy ==
  \/ GetDaily(1, 1)
  \/ GenCheck(1)
  \/ GenDue(1)
  \/ GenWeakTopics(1)
  \/ GenWeakItems(1)
  \/ GenNew(1)
  \/ GenInsert(1)
  \/ GenNotify(1)
  \/ \E h \in Handlers, itemId \in {1, 2}, itemType \in {"flashcard", "mcq"},
        isCorrect \in BOOLEAN, easeRating \in {Undefined, 4} :
       PostResponse(h, 1, itemId, itemType, isCorrect, easeRating)
  \/ \E h \in Handlers : RespOwnerCheck(h)
  \/ \E h \in Handlers : RespInsert(h)
  \/ \E h \in Handlers : RespSelect(h)
  \/ \E h \in Handlers : RespUpdate(h)

SpecStudy == StudyInit /\ [][NextStudy]_vars

\* ------------------------------------------------------------------------
\* Answers, a midnight and a daily pack
\* ------------------------------------------------------------------------

\* User 1 owns flashcard 1, new and so due at once, flashcard 2, answered six
\* days ago and due today, and MCQ 1, answered five days ago and due
\* tomorrow; topic t1 is weak
DueInit ==
  /\ now = 0
  /\ study_sets = [i \in {1} |->
                     [id |-> 1, user_id |-> 1, topics |-> {"t1"},
                      difficulty_level |-> 2]]
  /\ flashcards = [i \in {1, 2} |->
                     IF i = 1 THEN NewItemRow(1, 1, 2, 0)
                     ELSE [SeenItemRow(2, 1, 5, 6, 130, 2) EXCEPT
                             !.last_reviewed = 0 - 6, !.due_at = 0]]
  /\ mcqs = [i \in {1} |-> [SeenItemRow(1, 1, 3, 6, 250, 2) EXCEPT
                              !.last_reviewed = 0 - 5, !.due_at = 1]]
  /\ topic_performance = [k \in {<<1, "t1">>} |-> TopicRow(1, "t1", 4000, 10)]
  /\ study_sessions = <<>>
  /\ notifications = <<>>
  /\ gen = [p \in Procs |-> IdleFrame]
  /\ batch = [pc |-> "idle", users |-> <<>>, i |-> 0, log |-> <<>>, error |-> FALSE]
  /\ httpRes = [p \in Reqs |-> NoResponse]
  /\ forced = {}
  /\ user_responses = <<>>
  /\ resp = [h \in Handlers |-> IdleHandler]
  /\ respRes = [h \in Handlers |-> Undefined]
  /\ topicJob = IdleJob
  /\ packJob = IdlePack

\* Midnight passes while no handler holds a due date it has yet to write:
\* new Date() and the NOW() of the UPDATE that follows it are taken on the
\* same day
Midnight ==
  /\ \A h \in Handlers : resp[h].pc # "update"
  /\ Tick

\* Answers of user 1 on the flashcards, one after the other, a GET /daily of
\* user 1 and the days passing, in any interleaving
NextDue ==
  \/ GetDaily(1, 1)
  \/ GenCheck(1)
  \/ GenDue(1)
  \/ GenWeakTopics(1)
  \/ GenWeakItems(1)
  \/ GenNew(1)
  \/ GenInsert(1)
  \/ GenNotify(1)
  \/ \E itemId \in {1, 2}, isCorrect \in BOOLEAN, easeRating \in {Undefined, 4} :
       /\ Len(user_responses) < MaxAnswers
       /\ PostResponse(1, 1, itemId, "flashcard", isCorrect, easeRating)
  \/ RespOwnerCheck(1)
  \/ RespInsert(1)
  \/ RespSelect(1)
  \/ RespUpdate(1)
  \/ NextRequest(1)
  \/ Midnight

SpecDue == DueInit /\ [][NextDue]_vars

\* ------------------------------------------------------------------------
\* Pools for the composition of one pack
\* ------------------------------------------------------------------------

\* A reviewed item: answered before, so review_count > 0
ReviewedRow(id, studySetId, difficulty, dueAt) ==
  [NewItemRow(id, studySetId, difficulty, 0) EXCEPT
     !.review_count = 2, !.interval_days = 6, !.last_reviewed = dueAt - 6,
     !.due_at = dueAt]

\* The due date of the k-th overdue item of a type: all flashcards before all
\* MCQs, all MCQs before all flashcards, or the two types alternating
DueDateOf(pattern, t, k) ==
  IF pattern = "flashcardsFirst" THEN (IF t = "flashcard" THEN k ELSE 100 + k)
  ELSE IF pattern = "mcqsFirst" THEN (IF t = "mcq" THEN k ELSE 100 + k)
  ELSE (IF t = "flashcard" THEN 2 * k ELSE 2 * k + 1)

DuePatterns == {"flashcardsFirst", "mcqsFirst", "alternating"}
WeakKinds == {"none", "separate", "overlap"}

\* User 1 on day 1000.  Study set 1 (topic t1) holds nDueF overdue flashcards
\* and nDueM overdue MCQs, ids 1.., the first ones the hardest.  Study set 2
\* (topic t2) holds 6 flashcards and 4 MCQs, ids 101.., reviewed and not due.
\* Study set 3 (topic t3) holds, if hasNew, 4 flashcards and 3 MCQs, ids
\* 201.., created on the last days and never reviewed.  Topic t2 is weak
\* unless weakKind is "none"; with "overlap" topic t1 is weak as well.
\* Study set 4 (topic t2) is user 2's: a flashcard and an MCQ, id 301, of the
\* highest difficulty, created today and never reviewed.
ComposeInit(nDueF, nDueM, pattern, weakKind, hasNew) ==
  /\ now = 1000
  /\ study_sets = [i \in 1..4 |->
                     [id |-> i, user_id |-> IF i = 4 THEN 2 ELSE 1,
                      topics |-> {IF i = 1 THEN "t1" ELSE IF i = 3 THEN "t3" ELSE "t2"},
                      difficulty_level |-> IF i = 4 THEN 5 ELSE 2]]
  /\ flashcards =
       [i \in (1..nDueF) \cup (101..106) \cup (IF hasNew THEN 201..204 ELSE {})
                \cup {301} |->
          IF i <= 100 THEN ReviewedRow(i, 1, Max(0, 6 - i), DueDateOf(pattern, "flashcard", i))
          ELSE IF i <= 200 THEN ReviewedRow(i, 2, Max(1, 106 - i), 1003)
          ELSE IF i <= 300 THEN NewItemRow(i, 3, 2, 796 + i)
          ELSE NewItemRow(i, 4, 5, 1000)]
  /\ mcqs =
       [i \in (1..nDueM) \cup (101..104) \cup (IF hasNew THEN 201..203 ELSE {})
                \cup {301} |->
          IF i <= 100 THEN ReviewedRow(i, 1, Max(0, 4 - i), DueDateOf(pattern, "mcq", i))
          ELSE IF i <= 200 THEN ReviewedRow(i, 2, 105 - i, 1003)
          ELSE IF i <= 300 THEN NewItemRow(i, 3, 2, 797 + i)
          ELSE NewItemRow(i, 4, 5, 1000)]
  /\ topic_performance =
       [k \in {<<1, t>> : t \in (IF weakKind = "none" THEN {}
                                 ELSE IF weakKind = "separate" THEN {"t2"}
                                 ELSE {"t1", "t2"}) \cup {"t3"}} |->
          IF k[2] = "t3"
          THEN [user_id |-> 1, topic |-> "t3", total_attempts |-> 10,
                correct_attempts |-> 8, accuracy_7day |-> 8000]
          ELSE [user_id |-> 1, topic |-> k[2], total_attempts |-> 10,
                correct_attempts |-> 4, accuracy_7day |-> 4000]]
  /\ study_sessions = <<>>
  /\ notifications = <<>>
  /\ gen = [p \in Procs |-> IdleFrame]
  /\ batch = [pc |-> "idle", users |-> <<>>, i |-> 0, log |-> <<>>, error |-> FALSE]
  /\ httpRes = [p \in Reqs |-> NoResponse]
  /\ forced = {}
  /\ user_responses = <<>>
  /\ resp = [h \in Handlers |-> IdleHandler]
  /\ respRes = [h \in Handlers |-> Undefined]
  /\ topicJob = IdleJob
  /\ packJob = IdlePack

InitCompose ==
  \E nDueF \in 0..MaxDueF, nDueM \in 0..MaxDueM, pattern \in DuePatterns,
     weakKind \in WeakKinds, hasNew \in BOOLEAN :
    ComposeInit(nDueF, nDueM, pattern, weakKind, hasNew)

\* One GET /daily of user 1 against the pools
NextCompose ==
  \/ GetDaily(1, 1)
  \/ GenCheck(1)
  \/ GenDue(1)
  \/ GenWeakTopics(1)
  \/ GenWeakItems(1)
  \/ GenNew(1)
  \/ GenInsert(1)
  \/ GenNotify(1)

SpecCompose == InitCompose /\ [][NextCompose]_vars

\* ------------------------------------------------------------------------
\* Properties of the daily generation
\* ------------------------------------------------------------------------

\* The daily sessions of a user started on a date
DailySessionsOn(u, d) ==
  { i \in 1..Len(study_sessions) :
      /\ study_sessions[i].user_id = u
      /\ study_sessions[i].session_type = "daily"
      /\ study_sessions[i].started_at = d }

\* The daily-pack notifications sent for the sessions of a user and date
DailyNotificationsOn(u, d) ==
  { n \in 1..Len(notifications) :
      /\ notifications[n].user_id = u
      /\ notifications[n].type = "daily_pack_ready"
      /\ notifications[n].data.sessionId \in {study_sessions[i].id : i \in DailySessionsOn(u, d)} }

\* Invocation p settles in this step
Settles(p) ==
  IF p = Cron THEN Len(batch'.log) = Len(batch.log) + 1
  ELSE gen[p].pc # "done" /\ gen'[p].pc = "done"

\* How the last settled invocation of p ended
Settled(p) ==
  IF p = Cron
  THEN IF Len(batch.log) = 0
       THEN [outcome |-> "none", error |-> "", result |-> NoResult]
       ELSE [outcome |-> batch.log[Len(batch.log)].outcome,
             error |-> batch.log[Len(batch.log)].error,
             result |-> batch.log[Len(batch.log)].result]
  ELSE [outcome |-> gen[p].outcome, error |-> gen[p].error, result |-> gen[p].result]

\* C1: an unforced generateDailyPack whose guard finds a daily session of
\* today that is not completed creates no session, sends no notification and
\* returns the reference of the existing session.
C1_SecondCallReturnsExistingSession ==
  [][\A p \in Procs :
       (/\ gen[p].pc = "check"
        /\ existingPackQuery(gen[p].userId) # {}
        /\ Settles(p)
        /\ Settled(p)'.outcome = "returned")
       => /\ study_sessions' = study_sessions
          /\ notifications' = notifications
          /\ Settled(p)'.result.sessionId \in existingPackQuery(gen[p].userId)]_vars

\* C2: for a user and a date without forced generation there is at most one
\* daily session, whatever generate calls, batch runs and completions happened.
C2_AtMostOneDailySessionPerDay ==
  \A u \in Users, d \in Days :
    <<u, d>> \notin forced => Cardinality(DailySessionsOn(u, d)) <= 1

\* C3: as long as no daily session of the user and date was completed and no
\* generation was forced, concurrent unforced generateDailyPack calls create
\* at most one daily session and send at most one notification.
C3_ConcurrentCallsCreateOneSession ==
  \A u \in Users, d \in Days :
    (/\ <<u, d>> \notin forced
     /\ \A i \in DailySessionsOn(u, d) : study_sessions[i].status # "completed")
    => /\ Cardinality(DailySessionsOn(u, d)) <= 1
       /\ Cardinality(DailyNotificationsOn(u, d)) <= 1

\* C6: a generateDailyPack whose composed pack is empty (nothing in the due
\* and weak-topic buckets, no unreviewed item to fetch) settles at once with
\* the 'No study items available today' result, not an error, and leaves the
\* sessions and the notifications alone; no session or notification is ever
\* about 0 items.
C6_EmptyPackCreatesNothing ==
  /\ [](/\ \A i \in 1..Len(study_sessions) : study_sessions[i].items_total > 0
        /\ \A n \in 1..Len(notifications) : notifications[n].data.totalItems > 0)
  /\ [][\A p \in Procs :
          (/\ gen[p].pc = "new"
           /\ gen'[p].pc # "new"
           /\ Len(gen[p].dueFlashcards) + Len(gen[p].dueMCQs)
                + Len(gen[p].weakTopicItems) = 0
           /\ UnreviewedRows(gen[p].userId, "flashcard")
                \cup UnreviewedRows(gen[p].userId, "mcq") = {}
           /\ ~(Settles(p) /\ Settled(p)'.error = "query failed"))
          => /\ Settles(p)
             /\ Settled(p)'.outcome = "returned"
             /\ Settled(p)'.result.message = "No study items available today"
             /\ Settled(p)'.result.sessionId = Undefined
             /\ study_sessions' = study_sessions
             /\ notifications' = notifications]_vars

\* C6 witness: a call has returned the no-items result
C6_Witness ==
  \E p \in Procs :
    /\ Settled(p).outcome = "returned"
    /\ Settled(p).result.message = "No study items available today"
    /\ study_sessions = <<>> /\ notifications = <<>>

\* C7: when the batch run has ended, every user of the batch was processed in
\* turn, whether or not an earlier user's generation threw; a throw is logged
\* with the user and its cause and never ends the run; a user whose call
\* returned and who has items available has a daily session, and the session
\* a call reported is still in the table.
C7_BatchIsolation ==
  (batch.pc = "done" /\ batch.users # <<>>) =>
    /\ ~batch.error
    /\ Range(batch.users) = Users
    /\ Len(batch.log) = Len(batch.users)
    /\ \A k \in 1..Len(batch.log) :
         LET e == batch.log[k] IN
           /\ e.userId = batch.users[k]
           /\ e.outcome \in {"returned", "thrown"}
           /\ e.outcome = "thrown" => e.error # ""
           /\ (/\ e.outcome = "returned"
               /\ UnreviewedRows(e.userId, "flashcard")
                    \cup UnreviewedRows(e.userId, "mcq") # {})
              => \E i \in 1..Len(study_sessions) :
                   /\ study_sessions[i].user_id = e.userId
                   /\ study_sessions[i].session_type = "daily"
           /\ e.result.sessionId # Undefined
              => \E i \in 1..Len(study_sessions) :
                   /\ study_sessions[i].id = e.result.sessionId
                   /\ study_sessions[i].user_id = e.userId
                   /\ study_sessions[i].items_total = e.result.totalItems

\* C7 witness: the run ended, a user's generation threw and a user processed
\* after it got a session
C7_Witness ==
  /\ batch.pc = "done"
  /\ \E j, k \in 1..Len(batch.log) :
       /\ j < k
       /\ batch.log[j].outcome = "thrown"
       /\ batch.log[k].outcome = "returned"
       /\ batch.log[k].result.sessionId # Undefined

\* ------------------------------------------------------------------------
\* Properties of the composed pack
\* ------------------------------------------------------------------------

\* The invocations that hold a composed, non-empty pack
Composed == {p \in Procs : gen[p].pc \in {"insert", "notify"}}

\* The buckets of invocation p in pack order due -> weak -> new
Merged(p) == gen[p].dueFlashcards \o gen[p].dueMCQs
               \o gen[p].weakTopicItems \o gen[p].newItems

SameKey(a, b) == a.id = b.id /\ a.item_type = b.item_type

\* The positions of a merged sequence that hold the first occurrence of an item
FirstOccurrences(all) ==
  {i \in 1..Len(all) : \A j \in 1..(i - 1) : ~SameKey(all[j], all[i])}

\* C8: the pack never holds more than 25 items, and it is the first
\* min(25, n) items of the n first occurrences of the due -> weak -> new
\* sequence, in that order.
C8_PackIsCappedPrefix ==
  \A p \in Composed :
    LET all == Merged(p)
        first == FirstOccurrences(all)
        final == gen[p].finalItems
    IN  /\ Len(final) <= 25
        /\ Len(final) = Min(25, Cardinality(first))
        /\ \A k \in 1..Len(final) :
             \E i \in first :
               /\ Cardinality({j \in first : j <= i}) = k
               /\ final[k] = all[i]

\* C8 witness: a pack cut to 25 items out of more than 25 distinct ones
C8_Witness ==
  \E p \in Composed :
    /\ Cardinality(FirstOccurrences(Merged(p))) > 25
    /\ Len(gen[p].finalItems) = 25

\* C9: no (id, item_type) pair occurs twice in the pack, and an item of the
\* due bucket that is also in the weak-topic or the new bucket stands at its
\* position in the due bucket.
C9_PackHasNoDuplicates ==
  \A p \in Composed :
    LET due == gen[p].dueFlashcards \o gen[p].dueMCQs
        later == gen[p].weakTopicItems \o gen[p].newItems
        final == gen[p].finalItems
    IN  /\ \A i, j \in 1..Len(final) : i # j => ~SameKey(final[i], final[j])
        /\ \A k \in 1..Len(due) :
             (\E j \in 1..Len(later) : SameKey(later[j], due[k]))
             => /\ k <= Len(final)
                /\ SameKey(final[k], due[k])

\* C9 witness: a due item that is also in the weak-topic bucket, and one
\* that is also in the new bucket
C9_Witness ==
  \E p \in Composed :
    LET due == gen[p].dueFlashcards \o gen[p].dueMCQs
    IN  /\ \E k \in 1..Len(due), j \in 1..Len(gen[p].weakTopicItems) :
             SameKey(gen[p].weakTopicItems[j], due[k])
        /\ \E k \in 1..Len(due), j \in 1..Len(gen[p].newItems) :
             SameKey(gen[p].newItems[j], due[k])

\* C10: with F due flashcards and M due MCQs the due bucket holds exactly
\* min(12, F) flashcards and min(8, M) MCQs, whatever their due dates.
C10_DueBucketSizes ==
  \A p \in Procs :
    gen[p].pc \in {"weakTopics", "weakItems", "new", "insert", "notify"}
    => /\ Len(gen[p].dueFlashcards)
            = Min(12, Cardinality(DueRows(gen[p].userId, "flashcard")))
       /\ Len(gen[p].dueMCQs)
            = Min(8, Cardinality(DueRows(gen[p].userId, "mcq")))

\* C11: the due items of the pack, flashcards and MCQs read as one sequence
\* in pack order, are ordered by due date ascending and, among items due at
\* the same time, by difficulty descending.
C11_DueItemsOrdered ==
  \A p \in Procs :
    gen[p].pc \in {"weakTopics", "weakItems", "new", "insert", "notify"}
    => LET due == gen[p].dueFlashcards \o gen[p].dueMCQs
       IN  \A i, j \in 1..Len(due) :
             i < j => \/ due[i].due_at < due[j].due_at
                      \/ /\ due[i].due_at = due[j].due_at
                         /\ due[i].difficulty >= due[j].difficulty

\* ------------------------------------------------------------------------
\* Properties of the graded-response submission
\* ------------------------------------------------------------------------

\* No submission is in flight
Quiescent == \A h \in Handlers : resp[h].pc \in {"idle", "done"}

\* The SM-2 state of a row
SM2State(row) ==
  [difficulty |-> row.difficulty, interval_days |-> row.interval_days,
   ease_factor |-> row.ease_factor, review_count |-> row.review_count]

\* One SM-2 update applied to an SM-2 state
ApplyResponse(st, isCorrect, easeRating) ==
  LET n == calculateSM2(st.difficulty, st.interval_days, pgNumeric(st.ease_factor),
                        st.review_count, isCorrect, RatingOrDefault(easeRating))
  IN  [difficulty |-> n.difficulty, interval_days |-> n.interval,
       ease_factor |-> n.easeFactor, review_count |-> st.review_count + 1]

\* C4: when two submissions on the same item have both been answered 200,
\* the item's SM-2 state is the one that results from applying the two
\* updates to the new item one after the other, in one of the two orders.
C4_ConcurrentUpdatesSerialize ==
  \A h1, h2 \in Handlers :
    (/\ h1 # h2
     /\ Quiescent
     /\ respRes[h1] = 200 /\ respRes[h2] = 200
     /\ resp[h1].itemId = resp[h2].itemId
     /\ resp[h1].itemType = resp[h2].itemType)
    => LET start == SM2State(NewItemRow(resp[h1].itemId, 1, 2, 0))
           final == SM2State(TableOf(resp[h1].itemType)[resp[h1].itemId])
       IN  \/ final = ApplyResponse(ApplyResponse(start, resp[h1].isCorrect, resp[h1].easeRating),
                                    resp[h2].isCorrect, resp[h2].easeRating)
           \/ final = ApplyResponse(ApplyResponse(start, resp[h2].isCorrect, resp[h2].easeRating),
                                    resp[h1].isCorrect, resp[h1].easeRating)

\* The logged responses on an item
LoggedFor(itemType, itemId) ==
  {k \in 1..Len(user_responses) :
     user_responses[k].item_type = itemType /\ user_responses[k].item_id = itemId}

\* C5: once every submission is answered, each item has as many logged
\* responses as SM-2 updates applied to it, and the log holds exactly the
\* submissions that were answered as recorded: a submission answered with an
\* error left neither a log entry nor an update.
C5_LogAndUpdateCommitTogether ==
  Quiescent =>
    /\ \A t \in {"flashcard", "mcq"} :
         \A id \in DOMAIN TableOf(t) :
           Cardinality(LoggedFor(t, id)) = TableOf(t)[id].review_count
    /\ Len(user_responses) = Cardinality({h \in Handlers : respRes[h] = 200})

\* ------------------------------------------------------------------------
\* Properties of the SM-2 update
\* ------------------------------------------------------------------------

\* The step that answers the submission of handler h after its UPDATE
Answers(h) == resp[h].pc = "update" /\ resp'[h].pc = "done"

\* Every logged response is a correct answer on flashcard 1 rated 3
BootstrapRun ==
  \A k \in 1..Len(user_responses) :
    /\ user_responses[k].item_type = "flashcard"
    /\ user_responses[k].item_id = 1
    /\ user_responses[k].response_correct
    /\ user_responses[k].ease_rating = 3

\* A number, not NaN
IsNumber(v) == v # NaN

\* C12: from the defaults (difficulty 2, interval 1, ease factor 2.5, no
\* review) three correct answers rated 3 are each recorded and give the
\* intervals 1, then 6, then round(6 * ease2), ease2 being the ease factor
\* the item has after the second update.
C12_BootstrapIntervals ==
  [][(BootstrapRun /\ Answers(1) /\ flashcards[1].review_count <= 2)
     => /\ respRes'[1] = 200
        /\ flashcards'[1].review_count = flashcards[1].review_count + 1
        /\ IF flashcards[1].review_count = 0 THEN flashcards'[1].interval_days = 1
           ELSE IF flashcards[1].review_count = 1 THEN flashcards'[1].interval_days = 6
           ELSE /\ IsNumber(flashcards[1].ease_factor)
                /\ flashcards'[1].interval_days
                     = (6 * flashcards[1].ease_factor + 50) \div 100]_vars

\* C13: whatever answers were given, no ease factor that the SM-2 update
\* puts out or stores is below 1.3: each is a number of at least 1.3.
C13_EaseFactorFloor ==
  /\ \A id \in DOMAIN flashcards :
       IsNumber(flashcards[id].ease_factor) /\ flashcards[id].ease_factor >= 130
  /\ \A h \in Handlers :
       resp[h].pc = "update"
       => IsNumber(resp[h].newValues.easeFactor) /\ resp[h].newValues.easeFactor >= 130

\* C14: an incorrect answer, whatever its rating and whatever interval and
\* review count the item had, is recorded and leaves the item with an
\* interval of 1 day and difficulty min(5, difficulty + 1).
C14_IncorrectResets ==
  [][\A id \in DOMAIN flashcards :
       (Answers(1) /\ resp[1].itemId = id /\ ~resp[1].isCorrect)
       => /\ respRes'[1] = 200
          /\ resp[1].newValues.interval = 1
          /\ flashcards'[id].interval_days = 1
          /\ flashcards'[id].difficulty = Min(5, flashcards[id].difficulty + 1)]_vars

\* C14 witness: an incorrect answer on flashcard 2, which had interval 6, two
\* reviews and difficulty 5, and one on flashcard 1 after a correct answer
C14_Witness ==
  /\ Len(user_responses) = 3
  /\ ~user_responses[1].response_correct /\ user_responses[1].item_id = 2
  /\ user_responses[2].response_correct /\ user_responses[2].item_id = 1
  /\ ~user_responses[3].response_correct /\ user_responses[3].item_id = 1
  /\ resp[1].pc = "done" /\ respRes[1] = 200
  /\ flashcards[2].interval_days = 1 /\ flashcards[2].difficulty = 5
  /\ flashcards[2].review_count = 3
  /\ flashcards[1].interval_days = 1 /\ flashcards[1].difficulty = 2
  /\ flashcards[1].review_count = 2

\* C15: a correct answer rated 4 is recorded, gives a new ease factor that
\* is not smaller than the one before, or is the floor 1.3, and gives a new
\* interval of at least 1 day.
C15_EasyAnswerMonotone ==
  [][\A id \in DOMAIN flashcards :
       (Answers(1) /\ resp[1].itemId = id /\ resp[1].isCorrect
          /\ resp[1].easeRating = 4)
       => /\ respRes'[1] = 200
          /\ IsNumber(flashcards'[id].ease_factor)
          /\ \/ flashcards'[id].ease_factor = 130
             \/ /\ IsNumber(flashcards[id].ease_factor)
                /\ flashcards'[id].ease_factor >= flashcards[id].ease_factor
          /\ flashcards'[id].interval_days >= 1]_vars

\* C17: a submission whose rating is present and outside 1..4 is answered
\* 400; no response with such a rating is logged and no SM-2 update is
\* computed from it.
C17_RatingOutOfRangeRejected ==
  /\ \A k \in 1..Len(user_responses) :
       user_responses[k].ease_rating \in {Undefined} \cup (1..4)
  /\ \A h \in Handlers :
       (resp[h].pc # "idle" /\ resp[h].easeRating \notin {Undefined} \cup (1..4))
       => /\ resp[h].pc \notin {"select", "update"}
          /\ resp[h].pc = "done" => respRes[h] = 400

\* ------------------------------------------------------------------------
\* Properties of the weak topics
\* ------------------------------------------------------------------------

\* C16: the weak topics returned for (userId, limit, minAttempts) are
\* the user's topics with at least minAttempts attempts and a 7-day accuracy
\* below 70.0, ordered by accuracy ascending and at equal accuracy by attempts
\* descending, cut to the first limit entries; A(40, 10), B(40, 5), C(80, 10)
\* with limit 10 and minAttempts 3 gives [A, B].
C16_WeakTopicsResult ==
  \A p \in Reqs :
    httpRes[p].status = 200 =>
      LET q == httpRes[p].req
          res == httpRes[p].pack.weakTopics
          weak == {topic_performance[k] :
                     k \in {x \in DOMAIN topic_performance :
                              /\ x[1] = q.userId
                              /\ topic_performance[x].total_attempts >= q.minAttempts
                              /\ topic_performance[x].accuracy_7day < 7000}}
          NotAfter(a, b) == \/ a.accuracy_7day < b.accuracy_7day
                            \/ /\ a.accuracy_7day = b.accuracy_7day
                               /\ a.total_attempts >= b.total_attempts
      IN  /\ Len(res) = Min(q.limit, Cardinality(weak))
          /\ httpRes[p].pack.count = Len(res)
          /\ \A i \in 1..Len(res) : res[i] \in weak
          /\ \A i, j \in 1..Len(res) : i < j => res[i] # res[j] /\ NotAfter(res[i], res[j])
          /\ \A w \in weak \ Range(res) : \A i \in 1..Len(res) : NotAfter(res[i], w)
          /\ (/\ q.limit = 10 /\ q.minAttempts = 3
              /\ {k[2] : k \in {x \in DOMAIN topic_performance : x[1] = 1}} = {"A", "B", "C"}
              /\ topic_performance[<<1, "A">>] = TopicRow(1, "A", 4000, 10)
              /\ topic_performance[<<1, "B">>] = TopicRow(1, "B", 4000, 5)
              /\ topic_performance[<<1, "C">>] = TopicRow(1, "C", 8000, 10))
             => [i \in 1..Len(res) |-> res[i].topic] = <<"A", "B">>

\* C16 witness: the example, answered with [A, B]
C16_Witness ==
  \E p \in Reqs :
    /\ httpRes[p].status = 200
    /\ httpRes[p].req = [userId |-> 1, limit |-> 10, minAttempts |-> 3]
    /\ <<1, "C">> \in DOMAIN topic_performance
    /\ topic_performance[<<1, "C">>] = TopicRow(1, "C", 8000, 10)
    /\ [i \in 1..Len(httpRes[p].pack.weakTopics) |->
          httpRes[p].pack.weakTopics[i].topic] = <<"A", "B">>
    /\ httpRes[p].pack.weakTopics[1].total_attempts = 10
    /\ httpRes[p].pack.weakTopics[2].total_attempts = 5

\* ------------------------------------------------------------------------
\* Properties of the topic performance
\* ------------------------------------------------------------------------

\* The logged responses of user u on items tagged with topic t
ResponsesOn(u, t) ==
  {k \in 1..Len(user_responses) :
     /\ user_responses[k].user_id = u
     /\ user_responses[k].item_id \in DOMAIN TableOf(user_responses[k].item_type)
     /\ t \in TopicsOfResponse(k)}

\* The topics of the study sets of user u
TopicsOfUser(u) ==
  UNION {study_sets[i].topics : i \in {j \in DOMAIN study_sets : study_sets[j].user_id = u}}

\* C18: once a submission is recorded, every topic of the answered item's
\* study set has a record whose totalAttempts is the number of the user's
\* logged responses on the topic and whose correctAttempts is the number of
\* the correct ones: each response counted once, the record created on the
\* first.
C18_CountersFollowResponses ==
  \A h \in Handlers :
    (resp[h].pc = "done" /\ respRes[h] = 200)
    => \A t \in TopicsOfUser(resp[h].userId) :
         ResponsesOn(resp[h].userId, t) # {}
         => /\ <<resp[h].userId, t>> \in DOMAIN topic_performance
            /\ topic_performance[<<resp[h].userId, t>>].total_attempts
                 = Cardinality(ResponsesOn(resp[h].userId, t))
            /\ topic_performance[<<resp[h].userId, t>>].correct_attempts
                 = Cardinality({k \in ResponsesOn(resp[h].userId, t) :
                                  user_responses[k].response_correct})

\* The responses of ResponsesOn(u, t) of the trailing 7 days
InWindow(u, t) == {k \in ResponsesOn(u, t) : user_responses[k].created_at > now - 7}

\* What C19 asks of the table for user u
RecalculatedFor(u) ==
  \A t \in TopicsOfUser(u) :
    InWindow(u, t) # {}
    => /\ <<u, t>> \in DOMAIN topic_performance
       /\ LET attempts == Cardinality(InWindow(u, t))
              correct == Cardinality({k \in InWindow(u, t) :
                                        user_responses[k].response_correct})
              stored == topic_performance[<<u, t>>].accuracy_7day
          IN  /\ stored >= 0 /\ stored <= 10000
              /\ 2 * attempts * stored >= 2 * 10000 * correct - attempts
              /\ 2 * attempts * stored <= 2 * 10000 * correct + attempts

\* C19: when recalculate(userId) completes, every topic with a response of
\* the user in the trailing 7 days has a record, and its accuracy7day is
\* 100 * correct / attempts over the in-window responses (to the 2 decimals
\* stored), each response counted for every topic of its item.
C19_RecalculateFromWindow ==
  [][(topicJob.pc \in {"query", "update"} /\ topicJob'.pc = "done" /\ ~topicJob'.error)
     => RecalculatedFor(topicJob.userId)']_vars

\* C20: a recalculation called with a non-empty topic subset leaves the
\* records of the user's topics outside the subset unchanged.
C20_RecalculateSubsetOnly ==
  [][(topicJob.pc = "update" /\ Len(topicJob.topics) > 0)
     => \A k \in DOMAIN topic_performance :
          k[2] \notin Range(topicJob.topics)
          => /\ k \in DOMAIN topic_performance'
             /\ topic_performance'[k] = topic_performance[k]]_vars

\* ------------------------------------------------------------------------
\* Properties of the session and the notification of a pack
\* ------------------------------------------------------------------------

\* The notifications about session id
NotificationsOf(id) ==
  {n \in 1..Len(notifications) :
     notifications[n].type = "daily_pack_ready" /\ notifications[n].data.sessionId = id}

\* C21: a generateDailyPack that passed the guard with a non-empty pack
\* persists, in its insert step, exactly one new daily session whose
\* itemsTotal is the length of the final pack; its notify step hands over
\* one payload, about that session and with that item count; and a call
\* that returned a pack left exactly one session and one notification.
C21_OneSessionOneNotification ==
  /\ [](/\ \A i \in 1..Len(study_sessions) :
             /\ study_sessions[i].session_type = "daily"
             /\ Cardinality(NotificationsOf(study_sessions[i].id)) <= 1
             /\ \A n \in NotificationsOf(study_sessions[i].id) :
                  notifications[n].data.totalItems = study_sessions[i].items_total
        /\ \A p \in Procs :
             (Settled(p).outcome = "returned" /\ Settled(p).result.sessionId # Undefined)
             => /\ Cardinality({i \in 1..Len(study_sessions) :
                                  study_sessions[i].id = Settled(p).result.sessionId}) = 1
                /\ \A i \in 1..Len(study_sessions) :
                     study_sessions[i].id = Settled(p).result.sessionId
                     => study_sessions[i].items_total = Settled(p).result.totalItems
                /\ Cardinality(NotificationsOf(Settled(p).result.sessionId)) = 1)
  /\ [][\A p \in Procs :
          /\ (gen[p].pc = "insert" /\ gen'[p].pc = "notify")
             => /\ Len(study_sessions') = Len(study_sessions) + 1
                /\ study_sessions'[Len(study_sessions')].session_type = "daily"
                /\ study_sessions'[Len(study_sessions')].user_id = gen[p].userId
                /\ study_sessions'[Len(study_sessions')].items_total = Len(gen[p].finalItems)
                /\ Len(gen[p].finalItems) > 0
          /\ (gen[p].pc = "notify" /\ gen'[p].pc # "notify")
             => /\ study_sessions' = study_sessions
                /\ Len(notifications') <= Len(notifications) + 1
                /\ Len(notifications') = Len(notifications) + 1
                   => /\ notifications'[Len(notifications')].data.sessionId
                           = gen[p].sessionResult[1].id
                      /\ notifications'[Len(notifications')].data.totalItems
                           = Len(gen[p].finalItems)]_vars

\* C21 witness: a call returned a pack of which the weak-topic and the new
\* bucket shared an item, with its one session and its one notification
C21_Witness ==
  \E p \in Procs :
    /\ Settled(p).outcome = "returned"
    /\ Settled(p).result.sessionId # Undefined
    /\ Settled(p).result.totalItems
         < Settled(p).result.breakdown.dueFlashcards + Settled(p).result.breakdown.dueMCQs
             + Settled(p).result.breakdown.weakTopicItems + Settled(p).result.breakdown.newItems
    /\ Cardinality(NotificationsOf(Settled(p).result.sessionId)) = 1
    /\ \E i \in 1..Len(study_sessions) :
         /\ study_sessions[i].id = Settled(p).result.sessionId
         /\ study_sessions[i].items_total = Settled(p).result.totalItems

\* ------------------------------------------------------------------------
\* Frame of the composition
\* ------------------------------------------------------------------------

\* The SM-2 state of a row with its dates
ReviewState(row) ==
  [difficulty |-> row.difficulty, interval_days |-> row.interval_days,
   ease_factor |-> row.ease_factor, due_at |-> row.due_at,
   last_reviewed |-> row.last_reviewed, review_count |-> row.review_count]

\* The step records the answer of a submission on item (t, id)
AnswerRecordedOn(t, id) ==
  \E h \in Handlers :
    /\ resp[h].pc = "update" /\ resp'[h].pc = "done" /\ respRes'[h] = 200
    /\ resp[h].itemType = t /\ resp[h].itemId = id

\* C22: no step of a daily-pack composition changes the SM-2 state of an
\* item or a topic-performance record, and the SM-2 state of an item changes
\* only in the step that records a graded response on that item.
C22_CompositionReadsOnly ==
  [][/\ (\E p \in Procs : gen'[p] # gen[p])
        => /\ flashcards' = flashcards
           /\ mcqs' = mcqs
           /\ topic_performance' = topic_performance
     /\ \A id \in DOMAIN flashcards :
          (id \notin DOMAIN flashcards' \/ ReviewState(flashcards'[id]) # ReviewState(flashcards[id]))
          => AnswerRecordedOn("flashcard", id)
     /\ \A id \in DOMAIN mcqs :
          (id \notin DOMAIN mcqs' \/ ReviewState(mcqs'[id]) # ReviewState(mcqs[id]))
          => AnswerRecordedOn("mcq", id)]_vars

\* C22 witness: a pack that holds flashcard 1 was composed, flashcard 1 was
\* then answered, and the call returned the pack
C22_Witness ==
  /\ gen[1].pc = "done" /\ gen[1].outcome = "returned"
  /\ gen[1].result.sessionId # Undefined
  /\ \E k \in 1..Len(gen[1].result.items) :
       /\ gen[1].result.items[k].id = 1
       /\ gen[1].result.items[k].item_type = "flashcard"
       /\ gen[1].result.items[k].review_count = 0
  /\ flashcards[1].review_count = 1
  /\ mcqs[1].review_count = 3

\* ------------------------------------------------------------------------
\* The SM-2 update against its reference
\* ------------------------------------------------------------------------

\* C23: a correct answer rated 1..4 on an item whose ease factor is a number
\* is recorded and stores the reference values: interval 1 at review count
\* 0, 6 at review count 1, otherwise round(interval * ease factor); ease
\* factor ease + (0.1 - (5 - r) * (0.08 + (5 - r) * 0.02)), at least 1.3;
\* difficulty max(0, difficulty - 1).
C23_CorrectMatchesReference ==
  [][\A id \in DOMAIN flashcards :
       (/\ Answers(1) /\ resp[1].itemId = id /\ resp[1].itemType = "flashcard"
        /\ resp[1].isCorrect /\ resp[1].easeRating \in 1..4
        /\ IsNumber(flashcards[id].ease_factor))
       => /\ respRes'[1] = 200
          /\ flashcards'[id].interval_days
               = (IF flashcards[id].review_count = 0 THEN 1
                  ELSE IF flashcards[id].review_count = 1 THEN 6
                  ELSE (flashcards[id].interval_days * flashcards[id].ease_factor + 50) \div 100)
          /\ flashcards'[id].ease_factor
               = Max(130, flashcards[id].ease_factor
                            + (10 - (5 - resp[1].easeRating) * (8 + (5 - resp[1].easeRating) * 2)))
          /\ flashcards'[id].difficulty = Max(0, flashcards[id].difficulty - 1)]_vars

\* C24: every flashcard and every MCQ has an interval of at least 1 day and
\* a difficulty between 0 and 5, from the moment it is stored and after any
\* answers.
C24_IntervalAndDifficultyBounds ==
  \A t \in {"flashcard", "mcq"} :
    \A id \in DOMAIN TableOf(t) :
      /\ TableOf(t)[id].interval_days >= 1
      /\ TableOf(t)[id].difficulty >= 0
      /\ TableOf(t)[id].difficulty <= 5

\* C25: every graded response on an item raises its review count by exactly
\* 1, sets last_reviewed to the time of the update and due_at to that time
\* plus the new interval; the review count never goes down and, once the
\* submissions are answered, equals the number of graded responses recorded
\* for the item.
C25_ReviewCountFollowsResponses ==
  /\ [][\A t \in {"flashcard", "mcq"} :
          \A id \in DOMAIN TableOf(t) :
            /\ id \in DOMAIN TableOf(t)'
            /\ TableOf(t)'[id].review_count >= TableOf(t)[id].review_count
            /\ (Answers(1) /\ respRes'[1] = 200 /\ resp[1].itemType = t /\ resp[1].itemId = id)
                 => /\ TableOf(t)'[id].review_count = TableOf(t)[id].review_count + 1
                    /\ TableOf(t)'[id].last_reviewed = now
                    /\ TableOf(t)'[id].due_at = now + TableOf(t)'[id].interval_days]_vars
  /\ [](Quiescent =>
          \A t \in {"flashcard", "mcq"} :
            \A id \in DOMAIN TableOf(t) :
              TableOf(t)[id].review_count = Cardinality(LoggedFor(t, id)))

\* C26: an incorrect answer, whatever the rating and the state of the item,
\* is recorded and leaves the ease factor of the item as it was.
C26_IncorrectKeepsEase ==
  [][\A id \in DOMAIN flashcards :
       (Answers(1) /\ resp[1].itemId = id /\ resp[1].itemType = "flashcard"
          /\ ~resp[1].isCorrect)
       => /\ respRes'[1] = 200
          /\ resp[1].newValues.easeFactor = flashcards[id].ease_factor
          /\ flashcards'[id].ease_factor = flashcards[id].ease_factor]_vars

\* C26 witness: incorrect answers rated 1 and 5 were recorded on flashcard 2,
\* whose ease factor is 1.3, after a correct answer on flashcard 1
C26_Witness ==
  /\ Len(user_responses) = 3
  /\ user_responses[1].response_correct /\ user_responses[1].item_id = 1
  /\ ~user_responses[2].response_correct /\ user_responses[2].item_id = 2
  /\ user_responses[2].ease_rating = 1
  /\ ~user_responses[3].response_correct /\ user_responses[3].item_id = 2
  /\ user_responses[3].ease_rating = 5
  /\ resp[1].pc = "done" /\ respRes[1] = 200
  /\ flashcards[2].ease_factor = 130 /\ flashcards[2].review_count = 4
  /\ flashcards[2].interval_days = 1

\* ------------------------------------------------------------------------
\* Properties of the recalculation
\* ------------------------------------------------------------------------

\* C27: the record of a topic that has no response of the user in the
\* trailing 7 days keeps its accuracy7day in every step, recalculations
\* included.
C27_StaleAccuracyKept ==
  [][\A k \in DOMAIN topic_performance :
       InWindow(k[1], k[2]) = {}
       => /\ k \in DOMAIN topic_performance'
          /\ topic_performance'[k].accuracy_7day
               = topic_performance[k].accuracy_7day]_vars

\* C27 witness: a recalculation has completed that gave t1 the accuracy of
\* an incorrect answer on day 10, with t3 answered on day 0 only
C27_Witness ==
  /\ topicJob.pc = "done" /\ ~topicJob.error /\ Len(topicJob.rows) = 1
  /\ Len(topicJob.topics) = 0
  /\ InWindow(1, "t3") = {} /\ InWindow(1, "t1") # {}
  /\ topic_performance[<<1, "t1">>].accuracy_7day = 0
  /\ topic_performance[<<1, "t3">>].accuracy_7day = 0
  /\ topic_performance[<<1, "t3">>].total_attempts = 1

\* Every record of a topic of the accuracy query holds the accuracy of its row
RecalcFixed(u) ==
  \A r \in AccuracyResults(u) :
    <<u, r.topic>> \in DOMAIN topic_performance
    => topic_performance[<<u, r.topic>>].accuracy_7day
         = Accuracy(r.recent_correct, r.recent_attempts)

\* C28: a recalculation that completes with no response appended since its
\* query leaves every record of a queried topic at the accuracy of its row,
\* and an UPDATE of a recalculation that runs on such records with no
\* response appended leaves every record as it was: accuracy7day,
\* totalAttempts and correctAttempts.
C28_RecalculateIdempotent ==
  [][/\ (/\ topicJob.pc \in {"query", "update"}
         /\ topicJob'.pc = "done" /\ ~topicJob'.error
         /\ Range(topicJob'.rows) = AccuracyResults(topicJob.userId)')
        => RecalcFixed(topicJob.userId)'
     /\ (/\ topicJob.pc = "update"
         /\ topicJob'.pc \in {"update", "done"} /\ ~topicJob'.error
         /\ Range(topicJob.rows) = AccuracyResults(topicJob.userId)
         /\ RecalcFixed(topicJob.userId))
        => topic_performance' = topic_performance]_vars

\* C28 witness: the UPDATE of a second recalculation is about to run: t1 has
\* the accuracy a first one gave it, no response was appended since
C28_Witness ==
  /\ topicJob.pc = "update" /\ topicJob.i = 1 /\ Len(topicJob.topics) = 0
  /\ Range(topicJob.rows) = AccuracyResults(1)
  /\ RecalcFixed(1)
  /\ topic_performance[<<1, "t1">>].accuracy_7day = 0
  /\ topicJob.rows[1].topic = "t1"

\* ------------------------------------------------------------------------
\* Properties of the weak-topic bucket and of the new bucket
\* ------------------------------------------------------------------------

\* The invocations that have passed step 2
PastWeakItems == {p \in Procs : gen[p].pc \in {"new", "insert", "notify", "done"}
                                 /\ gen[p].outcome \in {"none", "returned"}
                                 /\ gen[p].userId # Undefined}

\* The row of the table an item of a bucket was read from
RowOf(item) == TableOf(item.item_type)[item.id]

\* C29: the weak topics of a composition are at most 5, each with at least 3
\* attempts and an accuracy under 70; without any the weak-topic bucket is
\* empty; otherwise it holds at most 5 flashcards and at most 3 MCQs, each of
\* a study set of the user that is tagged with one of the weak topics, and
\* each type in non-increasing difficulty.
C29_WeakBucket ==
  \A p \in PastWeakItems :
    LET names == {gen[p].weakTopics[i].topic : i \in 1..Len(gen[p].weakTopics)}
        items == gen[p].weakTopicItems
    IN  /\ Len(gen[p].weakTopics) <= 5
        /\ \A i \in 1..Len(gen[p].weakTopics) :
             /\ gen[p].weakTopics[i].total_attempts >= 3
             /\ gen[p].weakTopics[i].accuracy_7day < 7000
             /\ gen[p].weakTopics[i].user_id = gen[p].userId
        /\ names = {} => items = <<>>
        /\ Len(FilterType(items, "flashcard")) <= 5
        /\ Len(FilterType(items, "mcq")) <= 3
        /\ \A k \in 1..Len(items) :
             /\ items[k].item_type \in {"flashcard", "mcq"}
             /\ items[k].id \in DOMAIN TableOf(items[k].item_type)
             /\ study_sets[RowOf(items[k]).study_set_id].user_id = gen[p].userId
             /\ study_sets[RowOf(items[k]).study_set_id].topics \cap names # {}
        /\ \A t \in {"flashcard", "mcq"} :
             LET ofType == FilterType(items, t)
             IN  \A i, j \in 1..Len(ofType) :
                   i < j => ofType[i].difficulty >= ofType[j].difficulty

\* C29 witness: with t1 and t2 weak the bucket holds 5 flashcards and 3 MCQs,
\* not all of one difficulty; user 2 owns a flashcard of topic t2 as hard as
\* the hardest of them
C29_Witness ==
  /\ gen[1].pc = "new"
  /\ Len(gen[1].weakTopics) = 2
  /\ Len(FilterType(gen[1].weakTopicItems, "flashcard")) = 5
  /\ Len(FilterType(gen[1].weakTopicItems, "mcq")) = 3
  /\ gen[1].weakTopicItems[1].difficulty > gen[1].weakTopicItems[5].difficulty
  /\ \E k \in 1..5 : gen[1].weakTopicItems[k].study_set_id = 1
  /\ flashcards[301].difficulty >= gen[1].weakTopicItems[1].difficulty
  /\ study_sets[flashcards[301].study_set_id].user_id = 2

\* The invocations that have passed step 3
PastNewItems == {p \in Procs : gen[p].pc \in {"insert", "notify"}}

\* C30: the new bucket holds at most 3 flashcards and at most 2 MCQs, each an
\* item of the user with review count 0, and the newest ones: no item of the
\* user of the same type that was never reviewed and is left out was created
\* after one of the bucket, and each type stands newest first.
C30_NewBucket ==
  \A p \in PastNewItems :
    LET items == gen[p].newItems
    IN  /\ Len(FilterType(items, "flashcard")) <= 3
        /\ Len(FilterType(items, "mcq")) <= 2
        /\ \A k \in 1..Len(items) :
             /\ items[k].item_type \in {"flashcard", "mcq"}
             /\ items[k].id \in DOMAIN TableOf(items[k].item_type)
             /\ items[k].review_count = 0
             /\ RowOf(items[k]).review_count = 0
             /\ study_sets[RowOf(items[k]).study_set_id].user_id = gen[p].userId
        /\ \A t \in {"flashcard", "mcq"} :
             LET ofType == FilterType(items, t)
                 chosen == {ofType[i].id : i \in 1..Len(ofType)}
             IN  /\ \A i, j \in 1..Len(ofType) :
                       i < j => ofType[i].created_at >= ofType[j].created_at
                 /\ \A id \in DOMAIN TableOf(t) \ chosen :
                       (/\ TableOf(t)[id].review_count = 0
                        /\ study_sets[TableOf(t)[id].study_set_id].user_id = gen[p].userId)
                       => \A i \in 1..Len(ofType) :
                            TableOf(t)[id].created_at <= ofType[i].created_at

\* C30 witness: of 4 new flashcards and 3 new MCQs the bucket holds the 3
\* and the 2 newest; user 2 owns a new flashcard as recent as the newest
C30_Witness ==
  /\ gen[1].pc = "insert"
  /\ Len(FilterType(gen[1].newItems, "flashcard")) = 3
  /\ Len(FilterType(gen[1].newItems, "mcq")) = 2
  /\ gen[1].newItems[1].id = 204 /\ gen[1].newItems[3].id = 202
  /\ gen[1].newItems[4].id = 203 /\ gen[1].newItems[5].id = 202
  /\ 201 \in DOMAIN flashcards /\ flashcards[201].review_count = 0
  /\ flashcards[301].created_at = gen[1].newItems[1].created_at
  /\ flashcards[301].review_count = 0

\* ------------------------------------------------------------------------
\* Forced generation
\* ------------------------------------------------------------------------

\* C31: a forced generateDailyPack never runs the guard and never returns
\* "already generated"; it ends before the insert with a returned value only
\* when no bucket holds an item; and its insert step adds a daily session of
\* the user to the sessions there are, its notify step a notification of that
\* session, also when an active daily session of the user and the date exists.
C31_ForceBypassesGuard ==
  /\ [](\A p \in Procs :
          gen[p].forceGeneration
          => /\ gen[p].pc # "check"
             /\ gen[p].existingPackResult = {}
             /\ gen[p].result.message # "Daily pack already generated today")
  /\ [][\A p \in Procs :
          gen[p].forceGeneration
          => /\ (gen[p].pc = "new" /\ gen'[p].pc = "done" /\ gen'[p].outcome = "returned")
                => /\ gen[p].dueFlashcards = <<>> /\ gen[p].dueMCQs = <<>>
                   /\ gen[p].weakTopicItems = <<>>
                   /\ UnreviewedRows(gen[p].userId, "flashcard") = {}
                   /\ UnreviewedRows(gen[p].userId, "mcq") = {}
             /\ (gen[p].pc = "insert" /\ gen'[p].pc = "notify")
                => /\ Len(study_sessions') = Len(study_sessions) + 1
                   /\ SubSeq(study_sessions', 1, Len(study_sessions)) = study_sessions
                   /\ study_sessions'[Len(study_sessions')].user_id = gen[p].userId
                   /\ study_sessions'[Len(study_sessions')].session_type = "daily"
                   /\ study_sessions'[Len(study_sessions')].started_at = now
                   /\ study_sessions'[Len(study_sessions')].status = "active"
             /\ (gen[p].pc = "notify" /\ gen'[p].pc = "done" /\ gen'[p].outcome = "returned")
                => /\ Len(notifications') = Len(notifications) + 1
                   /\ notifications'[Len(notifications')].user_id = gen[p].userId
                   /\ notifications'[Len(notifications')].data.sessionId
                        = gen'[p].result.sessionId]_vars

\* C31 witness: a forced call of user 1 has returned the pack of a second
\* active daily session of the same date, each session with its notification
C31_Witness ==
  /\ gen[1].pc = "done" /\ gen[1].forceGeneration /\ gen[1].outcome = "returned"
  /\ gen[1].userId = 1
  /\ Len(study_sessions) = 2
  /\ gen[1].result.sessionId = study_sessions[2].id
  /\ \A i \in 1..2 : /\ study_sessions[i].user_id = 1
                     /\ study_sessions[i].status = "active"
                     /\ study_sessions[i].started_at = now
                     /\ study_sessions[i].session_type = "daily"
  /\ Cardinality(NotificationsOf(study_sessions[1].id)) = 1
  /\ Cardinality(NotificationsOf(study_sessions[2].id)) = 1

\* ------------------------------------------------------------------------
\* A composition of the batch run that does not complete
\* ------------------------------------------------------------------------

\* C32: when the composition for a user of the batch run blocks, the run
\* still comes to its end, with every user of the batch processed and the
\* blocked user logged as skipped.
C32_BlockedUserIsSkipped ==
  (batch.pc = "loop" /\ gen[Cron].pc = "blocked")
    ~> (/\ batch.pc = "done"
        /\ Len(batch.log) = Len(batch.users)
        /\ \E k \in 1..Len(batch.log) : batch.log[k].outcome = "skipped")

\* ------------------------------------------------------------------------
\* Submissions on items the user does not have
\* ------------------------------------------------------------------------

\* The submission of handler h names an item that is not in the table of its
\* type, or is of a study set of another user
NotOwnItem(h) ==
  /\ resp[h].pc # "idle"
  /\ ~MissingField(resp[h].itemId, resp[h].itemType)
  /\ \/ resp[h].itemId \notin DOMAIN TableOf(resp[h].itemType)
     \/ study_sets[TableOf(resp[h].itemType)[resp[h].itemId].study_set_id].user_id
          # resp[h].userId

\* C33: a submission on an item that does not exist or is not the user's is
\* answered 404 by the owner check; no response is logged for it and no item
\* is changed; every logged response is on an item of its user.
C33_UnknownItemNotFound ==
  /\ [](/\ \A h \in Handlers :
             NotOwnItem(h)
             => /\ resp[h].pc \in {"ownerCheck", "done"}
                /\ resp[h].pc = "done" => respRes[h] = 404
        /\ \A k \in 1..Len(user_responses) :
             /\ user_responses[k].item_id \in DOMAIN TableOf(user_responses[k].item_type)
             /\ study_sets[TableOf(user_responses[k].item_type)
                             [user_responses[k].item_id].study_set_id].user_id
                  = user_responses[k].user_id)
  /\ [][\A h \in Handlers :
          (NotOwnItem(h) /\ resp'[h] # resp[h])
          => /\ resp'[h].pc = "done" /\ respRes'[h] = 404
             /\ user_responses' = user_responses
             /\ flashcards' = flashcards /\ mcqs' = mcqs]_vars

\* C33 witness: user 1 was answered 404 on flashcard 2, which is user 2's,
\* and on MCQ 2, which does not exist; nothing was logged
C33_Witness ==
  /\ resp[1].pc = "done" /\ respRes[1] = 404
  /\ resp[1].itemId = 2 /\ resp[1].itemType = "flashcard"
  /\ 2 \in DOMAIN flashcards /\ study_sets[flashcards[2].study_set_id].user_id = 2
  /\ resp[2].pc = "done" /\ respRes[2] = 404
  /\ resp[2].itemId = 2 /\ resp[2].itemType = "mcq" /\ 2 \notin DOMAIN mcqs
  /\ user_responses = <<>>
  /\ flashcards[2].review_count = 0

\* ------------------------------------------------------------------------
\* Packs hold the user's own items
\* ------------------------------------------------------------------------

\* The user who owns the study set of an item of a bucket or a pack
OwnerOf(item) == study_sets[item.study_set_id].user_id

\* C34: every item of the due, weak-topic and new bucket of a composition for
\* user u, of its final pack and of the pack it returns is an item of a study
\* set of u, whatever the other user has generated and answered.
C34_PackItemsAreOwn ==
  \A p \in Procs :
    /\ \A item \in Range(gen[p].dueFlashcards) \cup Range(gen[p].dueMCQs)
                   \cup Range(gen[p].weakTopicItems) \cup Range(gen[p].newItems)
                   \cup Range(gen[p].finalItems) \cup Range(gen[p].result.items) :
         /\ item.study_set_id \in DOMAIN study_sets
         /\ OwnerOf(item) = gen[p].userId
    /\ \A i \in 1..Len(gen[p].weakTopics) : gen[p].weakTopics[i].user_id = gen[p].userId

\* C34 witness: user 1 got a pack of two items while user 2 owns a flashcard
\* and an MCQ of the same topic, the flashcard answered
C34_Witness ==
  /\ gen[1].pc = "done" /\ gen[1].outcome = "returned" /\ gen[1].userId = 1
  /\ Len(gen[1].result.items) = 2
  /\ \E id \in DOMAIN flashcards :
       /\ OwnerOf(flashcards[id]) = 2 /\ flashcards[id].review_count = 1
  /\ \E id \in DOMAIN mcqs : OwnerOf(mcqs[id]) = 2 /\ mcqs[id].review_count = 0
  /\ Len(study_sessions) = 1 /\ study_sessions[1].started_at = now

\* ------------------------------------------------------------------------
\* Due items in the final pack
\* ------------------------------------------------------------------------

\* The due bucket of invocation p, flashcards then MCQs
DueBucket(p) == gen[p].dueFlashcards \o gen[p].dueMCQs

\* C35: the due bucket holds at most 20 items, no two of them the same
\* (id, item_type), and the final pack starts with exactly the due bucket:
\* every due item is in the pack, so whatever deduplication and the
\* 25-item cap take out of the merged sequence is a weak-topic or new item.
C35_DueItemsAllKept ==
  \A p \in Composed :
    LET due == DueBucket(p)
        final == gen[p].finalItems
    IN  /\ Len(due) <= 20
        /\ \A i, j \in 1..Len(due) : i # j => ~SameKey(due[i], due[j])
        /\ Len(final) >= Len(due)
        /\ \A k \in 1..Len(due) : final[k] = due[k]

\* C35 witness: a full due bucket of 20 items, a merged sequence that lost
\* items to deduplication and to the cap, and a non-empty new bucket of
\* which nothing is left in the pack
C35_Witness ==
  \E p \in Composed :
    LET due == DueBucket(p)
        final == gen[p].finalItems
    IN  /\ Len(due) = 20
        /\ Len(final) = 25
        /\ Cardinality(FirstOccurrences(Merged(p))) > 25
        /\ Cardinality(FirstOccurrences(Merged(p))) < Len(Merged(p))
        /\ gen[p].newItems # <<>>
        /\ \A j \in 1..Len(gen[p].newItems), k \in (Len(due) + 1)..Len(final) :
             ~SameKey(final[k], gen[p].newItems[j])

\* ------------------------------------------------------------------------
\* Breakdown counts
\* ------------------------------------------------------------------------

\* The invocations that returned a pack
Returned == {p \in Procs : /\ gen[p].pc = "done" /\ gen[p].outcome = "returned"
                           /\ gen[p].result.message = ""}

\* The sum of the four counts of a breakdown
BreakdownSum(b) == b.dueFlashcards + b.dueMCQs + b.weakTopicItems + b.newItems

\* C36: when generateDailyPack returns a pack, its breakdown, and the counts
\* of the notification it sent, are the sizes of the buckets before
\* deduplication and truncation: their sum is never below totalItems, and
\* equals it exactly when the merged sequence had no duplicate and at most
\* 25 items.
C36_BreakdownCountsBuckets ==
  [][\A p \in Procs :
       (gen[p].pc = "notify" /\ gen'[p].pc = "done" /\ gen'[p].outcome = "returned")
       => LET r == gen'[p].result
              all == Merged(p)
              untouched == /\ Cardinality(FirstOccurrences(all)) = Len(all)
                           /\ Len(all) <= 25
          IN  /\ r.breakdown.dueFlashcards = Len(gen[p].dueFlashcards)
              /\ r.breakdown.dueMCQs = Len(gen[p].dueMCQs)
              /\ r.breakdown.weakTopicItems = Len(gen[p].weakTopicItems)
              /\ r.breakdown.newItems = Len(gen[p].newItems)
              /\ r.totalItems = Len(gen[p].finalItems)
              /\ BreakdownSum(r.breakdown) >= r.totalItems
              /\ (BreakdownSum(r.breakdown) = r.totalItems) <=> untouched
              /\ Len(notifications') = Len(notifications) + 1
              /\ LET d == notifications'[Len(notifications')].data
                 IN  /\ d.sessionId = r.sessionId
                     /\ d.dueItems = Len(gen[p].dueFlashcards) + Len(gen[p].dueMCQs)
                     /\ d.weakTopicItems = Len(gen[p].weakTopicItems)
                     /\ d.newItems = Len(gen[p].newItems)
                     /\ d.totalItems = r.totalItems
                     /\ d.dueItems + d.weakTopicItems + d.newItems >= d.totalItems]_vars

\* C36 witness: a returned and notified pack whose counts add up to more
\* than its 25 items
C36_Witness ==
  \E p \in Returned :
    LET r == gen[p].result
    IN  /\ BreakdownSum(r.breakdown) > 25
        /\ r.totalItems = 25
        /\ r.breakdown.newItems > 0
        /\ \E n \in 1..Len(notifications) :
             /\ notifications[n].data.sessionId = r.sessionId
             /\ notifications[n].data.totalItems = 25

\* C36 witness of the equality: a returned pack from which nothing was removed
C36_WitnessEqual ==
  \E p \in Returned :
    /\ BreakdownSum(gen[p].result.breakdown) = gen[p].result.totalItems
    /\ gen[p].result.breakdown.dueFlashcards > 0
    /\ gen[p].result.breakdown.dueMCQs > 0

\* ------------------------------------------------------------------------
\* A notification that fails after the session was persisted
\* ------------------------------------------------------------------------

\* The invocations that hold session id between its insert and its notification
NotifyingOf(id) ==
  {q \in Procs : gen[q].pc = "notify" /\ gen[q].sessionResult[1].id = id}

\* The daily sessions of user u and of today whose call ended in the sink
\* raising before any notification record was written
Unnotified(u) ==
  {i \in 1..Len(study_sessions) :
     /\ study_sessions[i].user_id = u
     /\ study_sessions[i].session_type = "daily"
     /\ study_sessions[i].started_at = now
     /\ NotificationsOf(study_sessions[i].id) = {}
     /\ NotifyingOf(study_sessions[i].id) = {}}

\* The daily-pack notifications of session id in a notifications table
NotificationsIn(table, id) ==
  {n \in 1..Len(table) :
     table[n].type = "daily_pack_ready" /\ table[n].data.sessionId = id}

C38_EaseNeverIncreases ==
  [][\A id \in DOMAIN flashcards :
       (/\ Answers(1) /\ resp[1].itemId = id /\ resp[1].easeRating \in 1..4
        /\ IsNumber(flashcards[id].ease_factor)
        /\ flashcards[id].ease_factor <= 250)
       => /\ IsNumber(flashcards'[id].ease_factor)
          /\ flashcards'[id].ease_factor <= flashcards[id].ease_factor
          /\ flashcards'[id].ease_factor <= 250]_vars

\* ------------------------------------------------------------------------
\* An answered item and the packs composed afterwards
\* ------------------------------------------------------------------------

\* The rows of both tables, each with its type
AllRows ==
  {SelectItem(flashcards[i], "flashcard") : i \in DOMAIN flashcards}
    \cup {SelectItem(mcqs[i], "mcq") : i \in DOMAIN mcqs}

C39_WitnessNextDay ==
  /\ gen[1].pc \in {"insert", "notify"}
  /\ now = 1
  /\ flashcards[1].review_count = 1 /\ flashcards[1].last_reviewed = 0
  /\ \E k \in 1..Len(gen[1].dueFlashcards) : gen[1].dueFlashcards[k].id = 1
  /\ gen[1].newItems = <<>>

====
